---- MODULE Spec2Model ----
(***************************************************************************)
(* A model of the GGUF codec of llm/gguf.go: WriteGGUF (the writer, run     *)
(* step by step against a byte sink) and gguf.Decode (the reader, run on    *)
(* the bytes of a stream).  Strings are sequences of bytes (0..255), files  *)
(* are sequences of bytes, integers are encoded little-endian with the      *)
(* width the code gives them.                                               *)
(***************************************************************************)
EXTENDS Integers, Sequences, FiniteSets, TLC

(***************************************************************************)
(* Bounds of the model.                                                     *)
(***************************************************************************)
\* the largest number of entries of a metadata map handed to WriteGGUF
MaxKV == 2
\* the largest number of tensors of a tensor list handed to WriteGGUF
MaxTensors == 2

(***************************************************************************)
(* Wire type codes, llm/gguf.go:69-83.                                      *)
(***************************************************************************)
ggufTypeUint8 == 0
ggufTypeInt8 == 1
ggufTypeUint16 == 2
ggufTypeInt16 == 3
ggufTypeUint32 == 4
ggufTypeInt32 == 5
ggufTypeFloat32 == 6
ggufTypeBool == 7
ggufTypeString == 8
ggufTypeArray == 9
ggufTypeUint64 == 10
ggufTypeInt64 == 11
ggufTypeFloat64 == 12

\* the alignment WriteGGUF pads to, and Decode's default
WriterAlignment == 32
DefaultAlignment == 32
\* the version WriteGGUF emits
WriterVersion == 3

(***************************************************************************)
(* Bytes and little-endian integers (encoding/binary, LittleEndian).        *)
(***************************************************************************)
Byte == 0..255

RECURSIVE LEU(_, _)
\* the w bytes of the unsigned integer v, least significant first
LEU(v, w) == IF w = 0 THEN <<>> ELSE <<v % 256>> \o LEU(v \div 256, w - 1)

\* the w bytes of the signed integer v in two's complement
LES(v, w) ==
    IF v >= 0 THEN LEU(v, w)
    ELSE LET m == LEU((-v) - 1, w) IN [i \in 1..w |-> 255 - m[i]]

RECURSIVE FromLEU(_)
\* the unsigned integer whose little-endian bytes are b
FromLEU(b) == IF b = <<>> THEN 0 ELSE b[1] + 256 * FromLEU(Tail(b))

\* the signed integer whose two's complement little-endian bytes are b
FromLES(b) ==
    IF b[Len(b)] < 128 THEN FromLEU(b)
    ELSE -(FromLEU([i \in 1..Len(b) |-> 255 - b[i]]) + 1)

\* n zero bytes: bytes.Repeat([]byte{0}, n)
Zeros(n) == [i \in 1..n |-> 0]

(***************************************************************************)
(* Byte-lexicographic order of strings: Go's < on string, cmp.Compare.      *)
(***************************************************************************)
RECURSIVE StrLess(_, _)
StrLess(a, b) ==
    IF b = <<>> THEN FALSE
    ELSE IF a = <<>> THEN TRUE
    ELSE IF a[1] # b[1] THEN a[1] < b[1]
    ELSE StrLess(Tail(a), Tail(b))

\* cmp.Compare on strings: -1, 0 or +1
cmpCompare(a, b) == IF StrLess(a, b) THEN -1 ELSE IF StrLess(b, a) THEN 1 ELSE 0

(***************************************************************************)
(* Metadata values.  A value is a record [et, t, e, a]: t is the wire type  *)
(* code of its Go dynamic type (uint32 -> 4, string -> 8, a slice -> 9), et *)
(* the element type code of a slice (0 for a scalar), e the payload of a    *)
(* scalar and a the payloads of a slice's elements.  A payload is a record  *)
(* [b, n, s] of which the type selects one field: the boolean b, the number *)
(* n (a float32 is its IEEE-754 bit pattern) or the string s.               *)
(***************************************************************************)
NumE(n) == [b |-> FALSE, n |-> n, s |-> <<>>]
BoolE(b) == [b |-> b, n |-> 0, s |-> <<>>]
StrE(str) == [b |-> FALSE, n |-> 0, s |-> str]

\* the payload of wire type t holding the value raw that was read
ElemOf(t, raw) ==
    IF t = ggufTypeBool THEN BoolE(raw)
    ELSE IF t = ggufTypeString THEN StrE(raw)
    ELSE NumE(raw)

Scalar(t, raw) == [et |-> 0, t |-> t, e |-> ElemOf(t, raw), a |-> <<>>]
Array(et, raws) ==
    [et |-> et, t |-> ggufTypeArray, e |-> NumE(0),
     a |-> [i \in 1..Len(raws) |-> ElemOf(et, raws[i])]]

RECURSIVE Concat(_)
\* the concatenation of a sequence of byte sequences
Concat(ss) == IF ss = <<>> THEN <<>> ELSE Head(ss) \o Concat(Tail(ss))

\* writeGGUF: the type tag, then the value
writeGGUF(t, bytes) == LEU(t, 4) \o bytes

\* writeGGUFString: tag, 64-bit length, the bytes, no trailing NUL
writeGGUFString(s) == LEU(ggufTypeString, 4) \o LEU(Len(s), 8) \o s

\* writeGGUFArray: array tag, element tag, 64-bit length, the elements
writeGGUFArray(t, elems) ==
    LEU(ggufTypeArray, 4) \o LEU(t, 4) \o LEU(Len(elems), 8) \o Concat(elems)

\* a type switch that also has a case for uint64
Writable_AlsoUint64(val) ==
    \/ val.t \in {ggufTypeUint32, ggufTypeFloat32, ggufTypeBool, ggufTypeString,
                  ggufTypeUint64}
    \/ /\ val.t = ggufTypeArray
       /\ val.et \in {ggufTypeInt32, ggufTypeUint32, ggufTypeFloat32, ggufTypeString}

\* the value kinds ggufWriteKV's type switch has a case for
Writable(val) ==
    \/ val.t \in {ggufTypeUint32, ggufTypeFloat32, ggufTypeBool, ggufTypeString}
    \/ /\ val.t = ggufTypeArray
       /\ val.et \in {ggufTypeInt32, ggufTypeUint32, ggufTypeFloat32, ggufTypeString}

\* the bytes ggufWriteKV writes for the value once the switch has chosen a case
ggufWriteValue(val) ==
    CASE val.t = ggufTypeUint32 -> writeGGUF(ggufTypeUint32, LEU(val.e.n, 4))
      [] val.t = ggufTypeFloat32 -> writeGGUF(ggufTypeFloat32, LEU(val.e.n, 4))
      [] val.t = ggufTypeBool -> writeGGUF(ggufTypeBool, <<IF val.e.b THEN 1 ELSE 0>>)
      [] val.t = ggufTypeString -> writeGGUFString(val.e.s)
      [] val.t = ggufTypeArray /\ val.et = ggufTypeInt32 ->
            writeGGUFArray(ggufTypeInt32, [i \in 1..Len(val.a) |-> LES(val.a[i].n, 4)])
      [] val.t = ggufTypeArray /\ val.et = ggufTypeUint32 ->
            writeGGUFArray(ggufTypeUint32, [i \in 1..Len(val.a) |-> LEU(val.a[i].n, 4)])
      [] val.t = ggufTypeArray /\ val.et = ggufTypeFloat32 ->
            writeGGUFArray(ggufTypeFloat32, [i \in 1..Len(val.a) |-> LEU(val.a[i].n, 4)])
      [] val.t = ggufTypeArray /\ val.et = ggufTypeString ->
            LEU(ggufTypeArray, 4) \o LEU(ggufTypeString, 4) \o LEU(Len(val.a), 8)
              \o Concat([i \in 1..Len(val.a) |-> LEU(Len(val.a[i].s), 8) \o val.a[i].s])
      [] OTHER -> <<>>

\* an error WriteGGUF or Convert returns: what it says, and the key it names
\* (none but for an improper type)
Failure(kind) == [kind |-> kind, key |-> <<>>]

\* return nil
NoError == Failure("")

\* fmt.Errorf("improper type for '%s'", k)
ImproperType(k) == [kind |-> "improper type", key |-> k]

\* the error a payload provider's WriteTo returned
ProviderError == Failure("provider")

\* ggufWriteKV: key length, key bytes, then the value; a value of any other
\* kind is an error, returned after the key has been written
ggufWriteKV(k, val) ==
    [bytes |-> LEU(Len(k), 8) \o k \o ggufWriteValue(val),
     err |-> IF Writable(val) THEN NoError ELSE ImproperType(k)]

(***************************************************************************)
(* Tensors.  A descriptor is [Name, Kind, Shape, Offset, fails]: fails says *)
(* whether its payload provider (the embedded io.WriterTo) returns an error.*)
(***************************************************************************)
RECURSIVE Product(_)
Product(shape) == IF shape = <<>> THEN 1 ELSE Head(shape) * Product(Tail(shape))

\* Tensor.parameters: the product of the shape's dimensions
parameters(t) == Product(t.Shape)

\* bytes per element of a tensor kind: 0 is F32, 1 is F16
BytesPerElement(kind) == IF kind = 0 THEN 4 ELSE 2

\* Tensor.Size: size_bytes = product(shape) x bytes_per_element(kind)
Size(t) == parameters(t) * BytesPerElement(t.Kind)

\* the dimensions written in the order given
WrittenShape_AsGiven(shape) == shape

\* the dimensions in the order ggufWriteTensorInfo writes them: reversed
WrittenShape(shape) == [i \in 1..Len(shape) |-> shape[Len(shape) - i + 1]]

\* ggufWriteTensorInfo: name, number of dimensions, the dimensions reversed,
\* kind, offset
ggufWriteTensorInfo(t) ==
    LEU(Len(t.Name), 8) \o t.Name \o LEU(Len(t.Shape), 4)
      \o Concat([i \in 1..Len(t.Shape) |-> LEU(WrittenShape(t.Shape)[i], 8)])
      \o LEU(t.Kind, 4) \o LEU(t.Offset, 8)

\* the remainder, not its complement
ggufPadding_Remainder(offset, align) == offset % align

\* ggufPadding
ggufPadding(offset, align) == (align - (offset % align)) % align

\* the bytes a payload provider streams into the sink: Size(t) bytes, here
\* each the tensor's identity
Payload(t) == [i \in 1..Size(t) |-> t.id]

(***************************************************************************)
(* Sorting.  slices.Sort and slices.SortFunc sort a slice of at most 12     *)
(* elements by insertion: element i is moved left while it compares less    *)
(* than its left neighbour, so equal elements keep their relative order.    *)
(***************************************************************************)
RECURSIVE InsertLeft(_, _, _)
\* the inner loop: for j := i; j > a && less(data[j], data[j-1]); j--
\* (less is the comparison, tabulated on the pairs of elements of data)
InsertLeft(data, j, less) ==
    IF j > 1 /\ less[<<data[j], data[j - 1]>>]
    THEN InsertLeft([data EXCEPT ![j] = data[j - 1], ![j - 1] = data[j]], j - 1, less)
    ELSE data

RECURSIVE InsertionSortFrom(_, _, _)
\* the outer loop: for i := a + 1; i < b; i++
InsertionSortFrom(data, i, less) ==
    IF i > Len(data) THEN data
    ELSE InsertionSortFrom(InsertLeft(data, i, less), i + 1, less)

Elems(seq) == {seq[i] : i \in 1..Len(seq)}

\* the keys left in the order maps.Keys returned them
SortKeys_Unsorted(keys) == keys

\* slices.Sort(keys)
SortKeys(keys) ==
    InsertionSortFrom(keys, 2, [p \in Elems(keys) \X Elems(keys) |-> StrLess(p[1], p[2])])

\* the tensors left in the order given
SortTensorsByName_Unsorted(list) == list

\* the comparison WriteGGUF sorts its tensors by: cmp.Compare(i.Name, j.Name) < 0
TensorLess(a, b) == cmpCompare(a.Name, b.Name) < 0

\* slices.SortFunc(ts, func(i, j Tensor) int { return cmp.Compare(i.Name, j.Name) })
SortTensorsByName(list) ==
    InsertionSortFrom(list, 2, [p \in Elems(list) \X Elems(list) |-> TensorLess(p[1], p[2])])

(***************************************************************************)
(* The reader.  A read takes and returns a reader state [err, pos, out]:    *)
(* the error so far ("" for none: every read after an error is skipped, as  *)
(* the code returns at the first error), the number of bytes of the stream  *)
(* consumed, and the values read so far, in order.  A run-time panic of the *)
(* Go program is the error "panic".                                         *)
(***************************************************************************)
Start(pos) == [err |-> "", pos |-> pos, out |-> <<>>]

Fail(st, e) == [st EXCEPT !.err = e]

Push(st, v, pos) == [st EXCEPT !.pos = pos, !.out = Append(@, v)]

\* the last value read, and the state without it
Top(st) == st.out[Len(st.out)]
Pop(st) == [st EXCEPT !.out = SubSeq(@, 1, Len(@) - 1)]

\* the width in bytes of a scalar wire type
WidthOf(t) ==
    CASE t \in {ggufTypeUint8, ggufTypeInt8, ggufTypeBool} -> 1
      [] t \in {ggufTypeUint16, ggufTypeInt16} -> 2
      [] t \in {ggufTypeUint32, ggufTypeInt32, ggufTypeFloat32} -> 4
      [] OTHER -> 8

\* the value binary.Read gives the bytes b as wire type t
FromBytes(t, b) ==
    CASE t \in {ggufTypeInt8, ggufTypeInt16, ggufTypeInt32, ggufTypeInt64} -> FromLES(b)
      [] t = ggufTypeBool -> b[1] # 0
      [] OTHER -> FromLEU(b)

\* readGGUF[T]: binary.Read of a fixed-width value of wire type t; a short
\* read is an error
readGGUF(t, stream, st) ==
    IF st.err # "" THEN st
    ELSE IF st.pos + WidthOf(t) > Len(stream) THEN Fail(st, "EOF")
    ELSE Push(st, FromBytes(t, SubSeq(stream, st.pos + 1, st.pos + WidthOf(t))),
              st.pos + WidthOf(t))

\* CopyString without the truncation of version 1
CopyString_KeepAll(version, stream, st) ==
    IF st.err # "" THEN st
    ELSE IF st.pos + Top(st) > Len(stream) THEN Fail(Pop(st), "EOF")
    ELSE Push(Pop(st), SubSeq(stream, st.pos + 1, st.pos + Top(st)), st.pos + Top(st))

\* io.CopyN of the n bytes whose count was just read (the top of out), then
\* for version 1 b.Truncate(b.Len() - 1), which panics for an empty buffer
CopyString(version, stream, st) ==
    IF st.err # "" THEN st
    ELSE IF st.pos + Top(st) > Len(stream) THEN Fail(Pop(st), "EOF")
    ELSE IF version = 1 /\ Top(st) - 1 < 0 THEN Fail(Pop(st), "panic")
    ELSE Push(Pop(st),
              SubSeq(stream, st.pos + 1,
                     st.pos + (IF version = 1 THEN Top(st) - 1 ELSE Top(st))),
              st.pos + Top(st))

\* readGGUFV1String: 64-bit length, the bytes, the last byte dropped
readGGUFV1String(stream, st) == CopyString(1, stream, readGGUF(ggufTypeUint64, stream, st))

\* readGGUFString
readGGUFString(version, stream, st) ==
    IF version = 1 THEN readGGUFV1String(stream, st)
    ELSE CopyString(version, stream, readGGUF(ggufTypeUint64, stream, st))

\* the types the switch of readGGUFArray and readGGUFV1Array has a case for
ArrayElemTypes ==
    {ggufTypeUint8, ggufTypeInt8, ggufTypeUint16, ggufTypeInt16, ggufTypeUint32,
     ggufTypeInt32, ggufTypeUint64, ggufTypeInt64, ggufTypeFloat32, ggufTypeFloat64,
     ggufTypeBool, ggufTypeString}

RECURSIVE ReadElems(_, _, _, _, _, _)
\* the element loop of readGGUFArray / readGGUFV1Array: n more elements of
\* type t, appended to acc; the array read is pushed
ReadElems(version, t, n, stream, st, acc) ==
    IF st.err # "" THEN st
    ELSE IF n = 0 THEN Push(st, acc, st.pos)
    ELSE IF t \notin ArrayElemTypes THEN Fail(st, "invalid array type")
    ELSE LET e == IF t = ggufTypeString THEN readGGUFString(version, stream, st)
                  ELSE readGGUF(t, stream, st) IN
         IF e.err # "" THEN e
         ELSE ReadElems(version, t, n - 1, stream, Pop(e), Append(acc, Top(e)))

\* the loop of readGGUFArray on the element type and count just read
ArrayBody(version, stream, st) ==
    IF st.err # "" THEN st
    ELSE ReadElems(version, Top(Pop(st)), Top(st), stream, Pop(st), <<>>)

\* readGGUFArray (readGGUFV1Array for version 1: a 32-bit element count);
\* leaves the element type and the elements in out
readGGUFArray(version, stream, st) ==
    ArrayBody(version, stream,
              readGGUF(IF version = 1 THEN ggufTypeUint32 ELSE ggufTypeUint64, stream,
                       readGGUF(ggufTypeUint32, stream, st)))

\* the value switch of gguf.Decode on the type tag just read
ReadValue(version, stream, st) ==
    IF st.err # "" THEN st
    ELSE IF Top(st) = ggufTypeArray THEN readGGUFArray(version, stream, st)
    ELSE IF Top(st) = ggufTypeString THEN readGGUFString(version, stream, st)
    ELSE IF Top(st) \in ArrayElemTypes THEN readGGUF(Top(st), stream, st)
    ELSE Fail(st, "invalid type")

\* one iteration of "decode key-values": out is <<key, tag, value>>, or
\* <<key, 9, element tag, elements>> for an array
DecodeKV(version, stream, pos) ==
    ReadValue(version, stream,
              readGGUF(ggufTypeUint32, stream, readGGUFString(version, stream, Start(pos))))

\* the value of the entry an iteration read
EntryValue(out) == IF out[2] = ggufTypeArray THEN Array(out[3], out[4]) ELSE Scalar(out[2], out[3])

\* llm.kv[k] = v
MapSet(m, k, v) == [x \in (DOMAIN m) \cup {k} |-> IF x = k THEN v ELSE m[x]]

EmptyMap == [x \in {} |-> 0]

Res(err, v, pos) == [err |-> err, v |-> v, pos |-> pos]

RECURSIVE DecodeKVs(_, _, _, _, _)
\* "decode key-values": n more entries
DecodeKVs(version, n, stream, pos, acc) ==
    IF n = 0 THEN Res("", acc, pos)
    ELSE LET e == DecodeKV(version, stream, pos) IN
         IF e.err # "" THEN Res(e.err, acc, e.pos)
         ELSE DecodeKVs(version, n - 1, stream, e.pos, MapSet(acc, e.out[1], EntryValue(e.out)))

RECURSIVE ReadShape(_, _, _, _)
\* the shape loop: dims more 64-bit dimensions, kept in the order read
ReadShape(dims, stream, st, acc) ==
    IF st.err # "" THEN st
    ELSE IF dims = 0 THEN Push(st, acc, st.pos)
    ELSE LET d == readGGUF(ggufTypeUint64, stream, st) IN
         IF d.err # "" THEN d
         ELSE ReadShape(dims - 1, stream, Pop(d), Append(acc, Top(d)))

\* shape := make([]uint64, dims) and its loop, on the dims just read
ShapeBody(stream, st) ==
    IF st.err # "" THEN st ELSE ReadShape(Top(st), stream, st, <<>>)

\* one iteration of "decode tensors": out is <<name, dims, shape, kind, offset>>
DecodeTensor(version, stream, pos) ==
    readGGUF(ggufTypeUint64, stream,
      readGGUF(ggufTypeUint32, stream,
        ShapeBody(stream,
          readGGUF(ggufTypeUint32, stream, readGGUFString(version, stream, Start(pos))))))

\* tensor := Tensor{Name: name, Kind: kind, Offset: offset, Shape: shape[:]}
TensorOf(out) == [Name |-> out[1], Kind |-> out[4], Offset |-> out[5], Shape |-> out[3]]

RECURSIVE DecodeTensors(_, _, _, _, _)
\* "decode tensors": n more descriptors
DecodeTensors(version, n, stream, pos, acc) ==
    IF n = 0 THEN Res("", acc, pos)
    ELSE LET t == DecodeTensor(version, stream, pos) IN
         IF t.err # "" THEN Res(t.err, acc, t.pos)
         ELSE DecodeTensors(version, n - 1, stream, t.pos, Append(acc, TensorOf(t.out)))

RECURSIVE SumParameters(_)
\* llm.parameters += tensor.parameters(), over the decoded tensors
SumParameters(tensors) ==
    IF tensors = <<>> THEN 0
    ELSE parameters(Head(tensors)) + SumParameters(Tail(tensors))

RECURSIVE SkipPayloads(_, _, _)
\* the closing loop of gguf.Decode: seek past each payload and its padding
SkipPayloads(tensors, pos, alignment) ==
    IF tensors = <<>> THEN pos
    ELSE SkipPayloads(Tail(tensors),
                      pos + Size(Head(tensors))
                          + ggufPadding(Size(Head(tensors)), alignment),
                      alignment)

\* the key gguf.Decode patches, "general.parameter_count", and the key it
\* reads the alignment from, "general.alignment"
ParameterCountKey ==
    <<103, 101, 110, 101, 114, 97, 108, 46, 112, 97, 114, 97, 109, 101, 116, 101,
      114, 95, 99, 111, 117, 110, 116>>
AlignmentKey ==
    <<103, 101, 110, 101, 114, 97, 108, 46, 97, 108, 105, 103, 110, 109, 101, 110,
      116>>

\* "patch KV with parameter count"
PatchParameterCount_KeepStored(m, tensors) ==
    IF ParameterCountKey \in DOMAIN m THEN m
    ELSE MapSet(m, ParameterCountKey, Scalar(ggufTypeUint64, SumParameters(tensors)))

\* llm.kv["general.parameter_count"] = llm.parameters
PatchParameterCount(m, tensors) ==
    MapSet(m, ParameterCountKey, Scalar(ggufTypeUint64, SumParameters(tensors)))

\* alignment, ok := llm.kv["general.alignment"].(uint32); if !ok { alignment = 32 }
AlignmentOf(m) ==
    IF AlignmentKey \in DOMAIN m /\ m[AlignmentKey].t = ggufTypeUint32
    THEN m[AlignmentKey].e.n ELSE DefaultAlignment

\* a decoded model, or the error Decode returns
Model(err, m, tensors, pos) == [err |-> err, kv |-> m, tensors |-> tensors, pos |-> pos]

\* the end of gguf.Decode, lines 229-258: the patch, the alignment, the seeks
\* (ggufPadding divides by the alignment: a stored alignment of 0 panics)
PatchAndSkip(m, tensors, pos) ==
    IF AlignmentOf(PatchParameterCount(m, tensors)) = 0
    THEN Model("panic", EmptyMap, <<>>, pos)
    ELSE Model("", PatchParameterCount(m, tensors), tensors,
               SkipPayloads(tensors,
                            pos + ggufPadding(pos, AlignmentOf(PatchParameterCount(m, tensors))),
                            AlignmentOf(PatchParameterCount(m, tensors))))

\* gguf.Decode after its metadata loop
DecodeAfterKVs(version, numTensor, stream, m) ==
    IF m.err # "" THEN Model(m.err, EmptyMap, <<>>, m.pos)
    ELSE LET t == DecodeTensors(version, numTensor, stream, m.pos, <<>>) IN
         IF t.err # "" THEN Model(t.err, EmptyMap, <<>>, t.pos)
         ELSE PatchAndSkip(m.v, t.v, t.pos)

\* gguf.Decode: the metadata, the descriptors, the patch, the seeks
ggufDecode(version, numKV, numTensor, stream, pos) ==
    DecodeAfterKVs(version, numTensor, stream, DecodeKVs(version, numKV, stream, pos, EmptyMap))

\* the header containerGGUF.Decode reads: out is <<version, NumTensor, NumKV>>,
\* the counts 32-bit wide for version 1 and 64-bit wide otherwise
ReadCounts(stream, st) ==
    IF st.err # "" THEN st
    ELSE readGGUF(IF Top(st) = 1 THEN ggufTypeUint32 ELSE ggufTypeUint64, stream,
                  readGGUF(IF Top(st) = 1 THEN ggufTypeUint32 ELSE ggufTypeUint64, stream, st))

\* containerGGUF.Decode: the version, the header it selects, then gguf.Decode
containerDecode(stream, pos) ==
    LET h == ReadCounts(stream, readGGUF(ggufTypeUint32, stream, Start(pos))) IN
    IF h.err # "" THEN Model(h.err, EmptyMap, <<>>, h.pos)
    ELSE ggufDecode(h.out[1], h.out[3], h.out[2], stream, h.pos)

(***************************************************************************)
(* The writer, step by step.                                                *)
(***************************************************************************)
VARIABLES
    kv,       \* the metadata map handed to WriteGGUF
    ts,       \* the caller's tensor slice (WriteGGUF sorts it in place)
    ts0,      \* the tensor list as the caller built it (history)
    keys,     \* WriteGGUF's local: the sorted keys
    file,     \* the bytes in the sink
    pc,       \* where WriteGGUF is
    idx,      \* the index of the loop WriteGGUF is in (from 1)
    s,        \* WriteGGUF's running offset
    err,      \* the error WriteGGUF returned (NoError for none)
    events,   \* what has been emitted, in order (history)
    decoded,  \* what Decode returned for the file
    src,      \* what a stream handed to Decode was built from (history)
    dir,      \* the model directory handed to Convert
    conv,     \* the adapter Convert selected
    vocab,    \* Convert's vocabulary v
    vocab0,   \* the vocabulary as the parser returned it (history)
    svs,      \* Convert's special vocabulary sv
    parser,   \* the vocabulary parser that ran (history)
    rp        \* a call of the llama repacker: its arguments and its result

\* Convert's part of the state
cvars == <<dir, conv, vocab, vocab0, svs, parser, rp>>

vars == <<kv, ts, ts0, keys, file, pc, idx, s, err, events, decoded, src, cvars>>

\* no call of the repacker
NoRepack == [name |-> <<>>]

\* no directory: WriteGGUF or Decode is called on its own
NoDirectory == [name |-> "none"]

\* a vocabulary: parallel lists of tokens, scores and types, and the merges
Vocabulary(tokens, scores, types, merges) ==
    [Tokens |-> tokens, Scores |-> scores, Types |-> types, Merges |-> merges]

NoVocabulary == Vocabulary(<<>>, <<>>, <<>>, <<>>)

Magic == <<71, 71, 85, 70>>

\* the header WriteGGUF writes: magic, version 3, tensor count, key count
HeaderBytes(m, list) ==
    Magic \o LEU(WriterVersion, 4) \o LEU(Len(list), 8) \o LEU(Cardinality(DOMAIN m), 8)

\* the running offset is not advanced
InfoStep_NoAdvance(bytes, running, t) ==
    [file |-> bytes \o ggufWriteTensorInfo([t EXCEPT !.Offset = running]),
     s |-> running]

\* one iteration of the descriptor loop on the loop's copy t of a tensor:
\* t.Offset = s; ggufWriteTensorInfo(ws, t); s += t.Size()
InfoStep(bytes, running, t) ==
    [file |-> bytes \o ggufWriteTensorInfo([t EXCEPT !.Offset = running]),
     s |-> running + Size(t)]

\* the padding written after the descriptor block, from the sink's position
PadStep(bytes) == bytes \o Zeros(ggufPadding(Len(bytes), WriterAlignment))

\* ggufWriteTensor: the payload, then the padding from the sink's new position
ggufWriteTensor(bytes, t, alignment) ==
    LET written == bytes \o Payload(t) IN
    written \o Zeros(ggufPadding(Len(written), alignment))

\* the orders maps.Keys may return the keys of a map in
Orderings(S) ==
    {f \in [1..Cardinality(S) -> S] : \A i, j \in 1..Cardinality(S) : i # j => f[i] # f[j]}

RECURSIVE Listing(_)
\* the elements of a set in one order
Listing(S) ==
    IF S = {} THEN <<>>
    ELSE LET x == CHOOSE y \in S : TRUE IN <<x>> \o Listing(S \ {x})

\* the orders of the keys of a map the model follows: every order for a map
\* within the bound, two orders (one the reverse of the other) for the larger
\* maps Convert builds
KeyOrders(S) ==
    IF Cardinality(S) <= MaxKV + 1 THEN Orderings(S)
    ELSE {Listing(S), [i \in 1..Cardinality(S) |-> Listing(S)[Cardinality(S) + 1 - i]]}

Event(op, name, i, off, start, end) ==
    [op |-> op, name |-> name, i |-> i, off |-> off, start |-> start, end |-> end]

NoModel == Model("none", EmptyMap, <<>>, 0)

(***************************************************************************)
(* WriteGGUF as a function of its arguments: the same steps, folded.  The   *)
(* result is [file, err]: the bytes in the sink when WriteGGUF returns, and *)
(* the error it returns.                                                    *)
(***************************************************************************)
RECURSIVE KVBlock(_, _, _)
\* the metadata loop over the sorted keys
KVBlock(sorted, m, bytes) ==
    IF sorted = <<>> THEN [file |-> bytes, err |-> NoError]
    ELSE LET r == ggufWriteKV(Head(sorted), m[Head(sorted)]) IN
         IF r.err # NoError THEN [file |-> bytes \o r.bytes, err |-> r.err]
         ELSE KVBlock(Tail(sorted), m, bytes \o r.bytes)

RECURSIVE InfoBlock(_, _, _)
\* the descriptor loop over the sorted tensors
InfoBlock(sorted, bytes, running) ==
    IF sorted = <<>> THEN bytes
    ELSE InfoBlock(Tail(sorted), InfoStep(bytes, running, Head(sorted)).file,
                   InfoStep(bytes, running, Head(sorted)).s)

RECURSIVE DataBlock(_, _)
\* the payload loop over the sorted tensors
DataBlock(sorted, bytes) ==
    IF sorted = <<>> THEN [file |-> bytes, err |-> NoError]
    ELSE IF Head(sorted).fails THEN [file |-> bytes, err |-> ProviderError]
    ELSE DataBlock(Tail(sorted), ggufWriteTensor(bytes, Head(sorted), WriterAlignment))

\* WriteGGUF after its metadata loop
WriteAfterKVs(r, list) ==
    IF r.err # NoError THEN r
    ELSE DataBlock(SortTensorsByName(list),
                   PadStep(InfoBlock(SortTensorsByName(list), r.file, 0)))

\* WriteGGUF(ws, kv, ts), with order the order maps.Keys returned the keys in
WriteGGUF(m, order, list) ==
    WriteAfterKVs(KVBlock(SortKeys(order), m, HeaderBytes(m, list)), list)

(***************************************************************************)
(* The inputs.                                                              *)
(***************************************************************************)
KeyA == <<97>>
KeyAB == <<97, 98>>
\* two plain keys and the two keys gguf.Decode gives a meaning to
MetaKeys == {KeyA, KeyAB, ParameterCountKey, AlignmentKey}

\* values of each kind ggufWriteKV writes, and two (a uint64 and an array of
\* arrays) it does not
MetaValues ==
    {Scalar(ggufTypeUint32, 0), Scalar(ggufTypeUint32, 64),
     Scalar(ggufTypeFloat32, 1065353216),
     Scalar(ggufTypeBool, TRUE), Scalar(ggufTypeString, <<104, 105>>),
     Array(ggufTypeInt32, <<-1, 2>>), Array(ggufTypeUint32, <<7>>),
     Array(ggufTypeFloat32, <<>>), Array(ggufTypeString, <<<<97>>, <<>>>>),
     Scalar(ggufTypeUint64, 5), Array(ggufTypeArray, <<>>)}

KVInputs ==
    UNION {[K -> MetaValues] : K \in {K \in SUBSET MetaKeys : Cardinality(K) <= MaxKV}}

KVFew == {EmptyMap, [k \in {KeyA} |-> Scalar(ggufTypeBool, TRUE)]}

TensorNames == {KeyA, KeyAB}

\* kind, shape and the Offset the caller left in the descriptor:
\* sizes 0, 12 and 32 bytes
TensorBodies ==
    {[Kind |-> 0, Shape |-> <<3, 0>>, Offset |-> 0],
     [Kind |-> 1, Shape |-> <<2, 3>>, Offset |-> 7],
     [Kind |-> 0, Shape |-> <<8>>, Offset |-> 0]}

MkTensor(id, name, body, fails) ==
    [id |-> id, Name |-> name, Kind |-> body.Kind, Shape |-> body.Shape,
     Offset |-> body.Offset, fails |-> fails]

\* the lists of n tensors, at most one of them with a failing payload provider
TensorLists(n) ==
    {[i \in 1..n |-> MkTensor(i, nm[i], bd[i], i = f)] :
        nm \in [1..n -> TensorNames], bd \in [1..n -> TensorBodies], f \in 0..n}

TensorInputs == UNION {TensorLists(n) : n \in 0..MaxTensors}

TsFew ==
    {<<>>, <<MkTensor(1, KeyA, [Kind |-> 1, Shape |-> <<2, 3>>, Offset |-> 7], FALSE)>>}

(***************************************************************************)
(* Streams handed to the reader.  A stream is built from a version, the     *)
(* framing of its strings (with or without a trailing NUL that the length   *)
(* prefix counts), metadata entries [k, val] and descriptors as they lie on *)
(* disk.                                                                    *)
(***************************************************************************)
NoSource == [version |-> 0, nul |-> FALSE, entries |-> <<>>, tensors |-> <<>>]

\* a string on the wire: 64-bit length, then the bytes
Frame(str, nul) ==
    LEU(Len(str) + (IF nul THEN 1 ELSE 0), 8) \o str \o (IF nul THEN <<0>> ELSE <<>>)

\* a payload of wire type t on the wire
EncodeElem(t, e, nul) ==
    CASE t = ggufTypeString -> Frame(e.s, nul)
      [] t = ggufTypeBool -> <<IF e.b THEN 1 ELSE 0>>
      [] t \in {ggufTypeInt8, ggufTypeInt16, ggufTypeInt32, ggufTypeInt64} ->
            LES(e.n, WidthOf(t))
      [] OTHER -> LEU(e.n, WidthOf(t))

\* the width of a count: 32 bits in version 1, 64 bits later
CountWidth(version) == IF version = 1 THEN 4 ELSE 8

\* a metadata entry on the wire: key, type tag, value
EncodeEntry(version, nul, entry) ==
    Frame(entry.k, nul) \o LEU(entry.val.t, 4)
      \o (IF entry.val.t = ggufTypeArray
          THEN LEU(entry.val.et, 4) \o LEU(Len(entry.val.a), CountWidth(version))
                 \o Concat([i \in 1..Len(entry.val.a) |->
                               EncodeElem(entry.val.et, entry.val.a[i], nul)])
          ELSE EncodeElem(entry.val.t, entry.val.e, nul))

\* a descriptor on the wire: name, dims, the dimensions, kind, offset
EncodeDescriptor(nul, t) ==
    Frame(t.Name, nul) \o LEU(Len(t.Shape), 4)
      \o Concat([i \in 1..Len(t.Shape) |-> LEU(t.Shape[i], 8)])
      \o LEU(t.Kind, 4) \o LEU(t.Offset, 8)

EncodeStream(x) ==
    Magic \o LEU(x.version, 4)
      \o LEU(Len(x.tensors), CountWidth(x.version))
      \o LEU(Len(x.entries), CountWidth(x.version))
      \o Concat([i \in 1..Len(x.entries) |-> EncodeEntry(x.version, x.nul, x.entries[i])])
      \o Concat([i \in 1..Len(x.tensors) |-> EncodeDescriptor(x.nul, x.tensors[i])])

KeyK == <<107>>
StreamEntries ==
    {[k |-> KeyK, val |-> Scalar(ggufTypeString, <<104, 105>>)],
     [k |-> ParameterCountKey, val |-> Scalar(ggufTypeUint64, 9)],
     [k |-> KeyA, val |-> Array(ggufTypeString, <<<<120>>, <<>>>>)],
     [k |-> <<>>, val |-> Scalar(ggufTypeInt32, -2)],
     \* a value tag no type has, an array of elements of such a tag, an
     \* array of arrays with one element and one with none
     [k |-> <<122>>, val |-> Scalar(13, 1)],
     [k |-> <<121>>, val |-> Array(13, <<1>>)],
     [k |-> <<120>>, val |-> Array(ggufTypeArray, <<0>>)],
     [k |-> <<119>>, val |-> Array(ggufTypeArray, <<>>)]}

StreamTensors ==
    {[Name |-> <<116>>, Kind |-> 0, Offset |-> 0, Shape |-> <<2, 3>>],
     [Name |-> <<117, 0>>, Kind |-> 1, Offset |-> 5, Shape |-> <<>>],
     [Name |-> <<>>, Kind |-> 0, Offset |-> 64, Shape |-> <<4, 0>>]}

SeqsUpTo(S, n) == UNION {[1..m -> S] : m \in 0..n}

\* every list of entries with few tensors, few entries with every list of
\* tensors
EntriesFew ==
    {<<>>, <<[k |-> ParameterCountKey, val |-> Scalar(ggufTypeUint64, 9)]>>}

TensorsFew ==
    {<<>>, <<[Name |-> <<117, 0>>, Kind |-> 1, Offset |-> 5, Shape |-> <<>>]>>}

StreamInputs ==
    {[version |-> v, nul |-> z, entries |-> es, tensors |-> ds] :
        v \in {1, 2, 3}, z \in BOOLEAN,
        es \in SeqsUpTo(StreamEntries, MaxKV), ds \in TensorsFew}
    \cup
    {[version |-> v, nul |-> z, entries |-> es, tensors |-> ds] :
        v \in {1, 2, 3}, z \in BOOLEAN,
        es \in EntriesFew, ds \in SeqsUpTo(StreamTensors, MaxTensors)}

\* a stream is handed to the reader
ReadInit ==
    /\ src \in StreamInputs
    /\ file = EncodeStream(src)
    /\ pc = "read"
    /\ kv = EmptyMap
    /\ ts = <<>>
    /\ ts0 = <<>>
    /\ keys = <<>>
    /\ idx = 1
    /\ s = 0
    /\ err = NoError
    /\ events = <<>>
    /\ decoded = NoModel
    /\ dir = NoDirectory
    /\ conv = ""
    /\ vocab = NoVocabulary
    /\ vocab0 = NoVocabulary
    /\ svs = <<>>
    /\ parser = ""
    /\ rp = NoRepack

Init ==
    /\ \/ kv \in KVInputs /\ ts \in TsFew
       \/ kv \in KVFew /\ ts \in TensorInputs
    /\ ts0 = ts
    /\ keys = <<>>
    /\ file = <<>>
    /\ pc = "header"
    /\ idx = 1
    /\ s = 0
    /\ err = NoError
    /\ events = <<>>
    /\ decoded = NoModel
    /\ src = NoSource
    /\ dir = NoDirectory
    /\ conv = ""
    /\ vocab = NoVocabulary
    /\ vocab0 = NoVocabulary
    /\ svs = <<>>
    /\ parser = ""
    /\ rp = NoRepack

(***************************************************************************)
(* WriteGGUF.                                                               *)
(***************************************************************************)
\* lines 494-511: the header, then keys := maps.Keys(kv); slices.Sort(keys)
WriteHeader ==
    /\ pc = "header"
    /\ file' = file \o HeaderBytes(kv, ts)
    /\ \E order \in KeyOrders(DOMAIN kv) : keys' = SortKeys(order)
    /\ pc' = "kv"
    /\ idx' = 1
    /\ UNCHANGED <<kv, ts, ts0, s, err, events, decoded, src, cvars>>

\* lines 513-517: one iteration of the metadata loop
WriteKV ==
    /\ pc = "kv"
    /\ idx <= Len(keys)
    /\ LET r == ggufWriteKV(keys[idx], kv[keys[idx]]) IN
        /\ file' = file \o r.bytes
        /\ events' = Append(events, Event("kv", keys[idx], idx, 0, Len(file), Len(file')))
        /\ IF r.err # NoError
           THEN /\ err' = r.err
                /\ pc' = "failed"
                /\ idx' = idx
           ELSE /\ err' = err
                /\ pc' = pc
                /\ idx' = idx + 1
    /\ UNCHANGED <<kv, ts, ts0, keys, s, decoded, src, cvars>>

\* lines 519-523: slices.SortFunc(ts, ...); var s uint64
SortTensors ==
    /\ pc = "kv"
    /\ idx > Len(keys)
    /\ ts' = SortTensorsByName(ts)
    /\ s' = 0
    /\ pc' = "info"
    /\ idx' = 1
    /\ UNCHANGED <<kv, ts0, keys, file, err, events, decoded, src, cvars>>

\* a descriptor loop that ranges over the caller's elements, not over copies
WriteTensorInfo_MutatesCaller ==
    /\ pc = "info"
    /\ idx <= Len(ts)
    /\ LET r == InfoStep(file, s, ts[idx]) IN
        /\ file' = r.file
        /\ s' = r.s
        /\ events' = Append(events,
                            Event("info", ts[idx].Name, ts[idx].id, s, Len(file), Len(r.file)))
    /\ ts' = [ts EXCEPT ![idx].Offset = s]
    /\ idx' = idx + 1
    /\ UNCHANGED <<kv, ts0, keys, pc, err, decoded, src, cvars>>

\* lines 524-530: one iteration of the descriptor loop (t is a copy of the
\* caller's element: the caller's slice is left alone)
WriteTensorInfo ==
    /\ pc = "info"
    /\ idx <= Len(ts)
    /\ LET r == InfoStep(file, s, ts[idx]) IN
        /\ file' = r.file
        /\ s' = r.s
        /\ events' = Append(events,
                            Event("info", ts[idx].Name, ts[idx].id, s, Len(file), Len(r.file)))
    /\ idx' = idx + 1
    /\ UNCHANGED <<kv, ts, ts0, keys, pc, err, decoded, src, cvars>>

\* lines 532-540: the padding after the descriptor block
WritePadding ==
    /\ pc = "info"
    /\ idx > Len(ts)
    /\ file' = PadStep(file)
    /\ events' = Append(events, Event("pad", <<>>, 0, 0, Len(file), Len(file')))
    /\ pc' = "data"
    /\ idx' = 1
    /\ UNCHANGED <<kv, ts, ts0, keys, s, err, decoded, src, cvars>>

\* every iteration of the payload loop streams the first tensor
WriteTensor_FirstAgain ==
    /\ pc = "data"
    /\ idx <= Len(ts)
    /\ IF ts[1].fails
       THEN /\ err' = ProviderError
            /\ pc' = "failed"
            /\ file' = file
            /\ idx' = idx
            /\ events' = Append(events,
                                Event("datafail", ts[1].Name, ts[1].id, 0, Len(file), Len(file)))
       ELSE /\ file' = ggufWriteTensor(file, ts[1], WriterAlignment)
            /\ events' = Append(events,
                                Event("data", ts[1].Name, ts[1].id, 0, Len(file), Len(file')))
            /\ idx' = idx + 1
            /\ UNCHANGED <<err, pc>>
    /\ UNCHANGED <<kv, ts, ts0, keys, s, decoded, src, cvars>>

\* lines 542-546: one iteration of the payload loop, ggufWriteTensor
WriteTensor ==
    /\ pc = "data"
    /\ idx <= Len(ts)
    /\ IF ts[idx].fails
       THEN /\ err' = ProviderError
            /\ pc' = "failed"
            /\ file' = file
            /\ idx' = idx
            /\ events' = Append(events,
                                Event("datafail", ts[idx].Name, ts[idx].id, 0, Len(file), Len(file)))
       ELSE /\ file' = ggufWriteTensor(file, ts[idx], WriterAlignment)
            /\ events' = Append(events,
                                Event("data", ts[idx].Name, ts[idx].id, 0, Len(file), Len(file')))
            /\ idx' = idx + 1
            /\ UNCHANGED <<err, pc>>
    /\ UNCHANGED <<kv, ts, ts0, keys, s, decoded, src, cvars>>

\* line 548: return nil
Return ==
    /\ pc = "data"
    /\ idx > Len(ts)
    /\ pc' = "done"
    /\ UNCHANGED <<kv, ts, ts0, keys, file, idx, s, err, events, decoded, src, cvars>>

\* a file is read (the file WriteGGUF wrote, or a stream handed to the
\* reader): the dispatcher consumes the magic, then containerGGUF.Decode runs
\* on the rest
Decode ==
    /\ pc \in {"done", "read"}
    /\ decoded' = containerDecode(file, Len(Magic))
    /\ pc' = "decoded"
    /\ UNCHANGED <<kv, ts, ts0, keys, file, idx, s, err, events, src, cvars>>

Next ==
    \/ WriteHeader
    \/ WriteKV
    \/ SortTensors
    \/ WriteTensorInfo
    \/ WritePadding
    \/ WriteTensor
    \/ Return
    \/ Decode

Spec == Init /\ [][Next]_vars

ReadNext == Decode

\* the reader alone, on streams of every version
ReadSpec == ReadInit /\ [][ReadNext]_vars

(***************************************************************************)
(* The converter, convert/convert.go: Convert reads a model directory,      *)
(* selects an adapter by architecture, parses the vocabulary, the special   *)
(* vocabulary and the tensors, and hands the adapter's metadata and tensor  *)
(* list to WriteGGUF.  First the string literals of the converter, as       *)
(* bytes.                                                                   *)
(***************************************************************************)
\* the string literals of the converter, each under its text with every
\* character that is not a letter or a digit replaced by _
Str ==
    [\* "general.file_type"
     general_file_type |-> <<103, 101, 110, 101, 114, 97, 108, 46, 102, 105,
         108, 101, 95, 116, 121, 112, 101>>,
     \* "tokenizer.ggml.pre"
     tokenizer_ggml_pre |-> <<116, 111, 107, 101, 110, 105, 122, 101, 114,
         46, 103, 103, 109, 108, 46, 112, 114, 101>>,
     \* "default"
     default |-> <<100, 101, 102, 97, 117, 108, 116>>,
     \* "tokenizer.ggml.tokens"
     tokenizer_ggml_tokens |-> <<116, 111, 107, 101, 110, 105, 122, 101, 114,
         46, 103, 103, 109, 108, 46, 116, 111, 107, 101, 110, 115>>,
     \* "tokenizer.ggml.scores"
     tokenizer_ggml_scores |-> <<116, 111, 107, 101, 110, 105, 122, 101, 114,
         46, 103, 103, 109, 108, 46, 115, 99, 111, 114, 101, 115>>,
     \* "tokenizer.ggml.token_type"
     tokenizer_ggml_token_type |-> <<116, 111, 107, 101, 110, 105, 122, 101,
         114, 46, 103, 103, 109, 108, 46, 116, 111, 107, 101, 110, 95, 116,
         121, 112, 101>>,
     \* "tokenizer.ggml."
     tokenizer_ggml_prefix |-> <<116, 111, 107, 101, 110, 105, 122, 101, 114,
         46, 103, 103, 109, 108, 46>>,
     \* "_token_id"
     token_id_suffix |-> <<95, 116, 111, 107, 101, 110, 95, 105, 100>>,
     \* "add_"
     add_prefix |-> <<97, 100, 100, 95>>,
     \* "_token"
     token_suffix |-> <<95, 116, 111, 107, 101, 110>>,
     \* "bos"
     bos |-> <<98, 111, 115>>,
     \* "eos"
     eos |-> <<101, 111, 115>>,
     \* "unk"
     unk |-> <<117, 110, 107>>,
     \* "sep"
     sep |-> <<115, 101, 112>>,
     \* "pad"
     pad |-> <<112, 97, 100>>,
     \* "cls"
     cls |-> <<99, 108, 115>>,
     \* "mask"
     mask |-> <<109, 97, 115, 107>>,
     \* "<dummy"
     dummy_prefix |-> <<60, 100, 117, 109, 109, 121>>,
     \* ">"
     dummy_suffix |-> <<62>>,
     \* "padding"
     padding |-> <<112, 97, 100, 100, 105, 110, 103>>,
     \* "unknown"
     unknown |-> <<117, 110, 107, 110, 111, 119, 110>>,
     \* "general.architecture"
     general_architecture |-> <<103, 101, 110, 101, 114, 97, 108, 46, 97,
         114, 99, 104, 105, 116, 101, 99, 116, 117, 114, 101>>,
     \* "general.name"
     general_name |-> <<103, 101, 110, 101, 114, 97, 108, 46, 110, 97, 109,
         101>>,
     \* "llama"
     llama |-> <<108, 108, 97, 109, 97>>,
     \* "llama.block_count"
     llama_block_count |-> <<108, 108, 97, 109, 97, 46, 98, 108, 111, 99,
         107, 95, 99, 111, 117, 110, 116>>,
     \* "llama.vocab_size"
     llama_vocab_size |-> <<108, 108, 97, 109, 97, 46, 118, 111, 99, 97, 98,
         95, 115, 105, 122, 101>>,
     \* "llama.context_length"
     llama_context_length |-> <<108, 108, 97, 109, 97, 46, 99, 111, 110, 116,
         101, 120, 116, 95, 108, 101, 110, 103, 116, 104>>,
     \* "llama.embedding_length"
     llama_embedding_length |-> <<108, 108, 97, 109, 97, 46, 101, 109, 98,
         101, 100, 100, 105, 110, 103, 95, 108, 101, 110, 103, 116, 104>>,
     \* "llama.feed_forward_length"
     llama_feed_forward_length |-> <<108, 108, 97, 109, 97, 46, 102, 101,
         101, 100, 95, 102, 111, 114, 119, 97, 114, 100, 95, 108, 101, 110,
         103, 116, 104>>,
     \* "llama.attention.head_count"
     llama_attention_head_count |-> <<108, 108, 97, 109, 97, 46, 97, 116,
         116, 101, 110, 116, 105, 111, 110, 46, 104, 101, 97, 100, 95, 99,
         111, 117, 110, 116>>,
     \* "llama.rope.dimension_count"
     llama_rope_dimension_count |-> <<108, 108, 97, 109, 97, 46, 114, 111,
         112, 101, 46, 100, 105, 109, 101, 110, 115, 105, 111, 110, 95, 99,
         111, 117, 110, 116>>,
     \* "llama.attention.head_count_kv"
     llama_attention_head_count_kv |-> <<108, 108, 97, 109, 97, 46, 97, 116,
         116, 101, 110, 116, 105, 111, 110, 46, 104, 101, 97, 100, 95, 99,
         111, 117, 110, 116, 95, 107, 118>>,
     \* "llama.attention.rope_freq_base"
     llama_attention_rope_freq_base |-> <<108, 108, 97, 109, 97, 46, 97, 116,
         116, 101, 110, 116, 105, 111, 110, 46, 114, 111, 112, 101, 95, 102,
         114, 101, 113, 95, 98, 97, 115, 101>>,
     \* "llama.attention.layer_norm_rms_epsilon"
     llama_attention_layer_norm_rms_epsilon |-> <<108, 108, 97, 109, 97, 46,
         97, 116, 116, 101, 110, 116, 105, 111, 110, 46, 108, 97, 121, 101,
         114, 95, 110, 111, 114, 109, 95, 114, 109, 115, 95, 101, 112, 115,
         105, 108, 111, 110>>,
     \* "llama.attention.layer_norm_epsilon"
     llama_attention_layer_norm_epsilon |-> <<108, 108, 97, 109, 97, 46, 97,
         116, 116, 101, 110, 116, 105, 111, 110, 46, 108, 97, 121, 101, 114,
         95, 110, 111, 114, 109, 95, 101, 112, 115, 105, 108, 111, 110>>,
     \* "llama.attention.expert_count"
     llama_attention_expert_count |-> <<108, 108, 97, 109, 97, 46, 97, 116,
         116, 101, 110, 116, 105, 111, 110, 46, 101, 120, 112, 101, 114, 116,
         95, 99, 111, 117, 110, 116>>,
     \* "llama.attention.expert_used_count"
     llama_attention_expert_used_count |-> <<108, 108, 97, 109, 97, 46, 97,
         116, 116, 101, 110, 116, 105, 111, 110, 46, 101, 120, 112, 101, 114,
         116, 95, 117, 115, 101, 100, 95, 99, 111, 117, 110, 116>>,
     \* "tokenizer.ggml.merges"
     tokenizer_ggml_merges |-> <<116, 111, 107, 101, 110, 105, 122, 101, 114,
         46, 103, 103, 109, 108, 46, 109, 101, 114, 103, 101, 115>>,
     \* "tokenizer.ggml.model"
     tokenizer_ggml_model |-> <<116, 111, 107, 101, 110, 105, 122, 101, 114,
         46, 103, 103, 109, 108, 46, 109, 111, 100, 101, 108>>,
     \* "."
     dot |-> <<46>>,
     \* "weight"
     weight |-> <<119, 101, 105, 103, 104, 116>>,
     \* "lm_head"
     lm_head |-> <<108, 109, 95, 104, 101, 97, 100>>,
     \* "output"
     output |-> <<111, 117, 116, 112, 117, 116>>,
     \* "model"
     model |-> <<109, 111, 100, 101, 108>>,
     \* "embed_tokens"
     embed_tokens |-> <<101, 109, 98, 101, 100, 95, 116, 111, 107, 101, 110,
         115>>,
     \* "token_embd"
     token_embd |-> <<116, 111, 107, 101, 110, 95, 101, 109, 98, 100>>,
     \* "norm"
     norm |-> <<110, 111, 114, 109>>,
     \* "output_norm"
     output_norm |-> <<111, 117, 116, 112, 117, 116, 95, 110, 111, 114,
         109>>,
     \* "layers"
     layers |-> <<108, 97, 121, 101, 114, 115>>,
     \* "blk"
     blk |-> <<98, 108, 107>>,
     \* "input_layernorm"
     input_layernorm |-> <<105, 110, 112, 117, 116, 95, 108, 97, 121, 101,
         114, 110, 111, 114, 109>>,
     \* "attn_norm"
     attn_norm |-> <<97, 116, 116, 110, 95, 110, 111, 114, 109>>,
     \* "self_attn.q_proj"
     self_attn_q_proj |-> <<115, 101, 108, 102, 95, 97, 116, 116, 110, 46,
         113, 95, 112, 114, 111, 106>>,
     \* "attn_q"
     attn_q |-> <<97, 116, 116, 110, 95, 113>>,
     \* "self_attn.k_proj"
     self_attn_k_proj |-> <<115, 101, 108, 102, 95, 97, 116, 116, 110, 46,
         107, 95, 112, 114, 111, 106>>,
     \* "attn_k"
     attn_k |-> <<97, 116, 116, 110, 95, 107>>,
     \* "self_attn.v_proj"
     self_attn_v_proj |-> <<115, 101, 108, 102, 95, 97, 116, 116, 110, 46,
         118, 95, 112, 114, 111, 106>>,
     \* "attn_v"
     attn_v |-> <<97, 116, 116, 110, 95, 118>>,
     \* "self_attn.o_proj"
     self_attn_o_proj |-> <<115, 101, 108, 102, 95, 97, 116, 116, 110, 46,
         111, 95, 112, 114, 111, 106>>,
     \* "attn_output"
     attn_output |-> <<97, 116, 116, 110, 95, 111, 117, 116, 112, 117, 116>>,
     \* "mlp.gate_proj"
     mlp_gate_proj |-> <<109, 108, 112, 46, 103, 97, 116, 101, 95, 112, 114,
         111, 106>>,
     \* "ffn_gate"
     ffn_gate |-> <<102, 102, 110, 95, 103, 97, 116, 101>>,
     \* "mlp.down_proj"
     mlp_down_proj |-> <<109, 108, 112, 46, 100, 111, 119, 110, 95, 112, 114,
         111, 106>>,
     \* "ffn_down"
     ffn_down |-> <<102, 102, 110, 95, 100, 111, 119, 110>>,
     \* "mlp.up_proj"
     mlp_up_proj |-> <<109, 108, 112, 46, 117, 112, 95, 112, 114, 111, 106>>,
     \* "ffn_up"
     ffn_up |-> <<102, 102, 110, 95, 117, 112>>,
     \* "post_attention_layernorm"
     post_attention_layernorm |-> <<112, 111, 115, 116, 95, 97, 116, 116,
         101, 110, 116, 105, 111, 110, 95, 108, 97, 121, 101, 114, 110, 111,
         114, 109>>,
     \* "ffn_norm"
     ffn_norm |-> <<102, 102, 110, 95, 110, 111, 114, 109>>,
     \* "attn_q.weight"
     attn_q_weight |-> <<97, 116, 116, 110, 95, 113, 46, 119, 101, 105, 103,
         104, 116>>,
     \* "attn_k.weight"
     attn_k_weight |-> <<97, 116, 116, 110, 95, 107, 46, 119, 101, 105, 103,
         104, 116>>,
     \* "gemma"
     gemma |-> <<103, 101, 109, 109, 97>>,
     \* "gemma.context_length"
     gemma_context_length |-> <<103, 101, 109, 109, 97, 46, 99, 111, 110,
         116, 101, 120, 116, 95, 108, 101, 110, 103, 116, 104>>,
     \* "gemma.embedding_length"
     gemma_embedding_length |-> <<103, 101, 109, 109, 97, 46, 101, 109, 98,
         101, 100, 100, 105, 110, 103, 95, 108, 101, 110, 103, 116, 104>>,
     \* "gemma.block_count"
     gemma_block_count |-> <<103, 101, 109, 109, 97, 46, 98, 108, 111, 99,
         107, 95, 99, 111, 117, 110, 116>>,
     \* "gemma.feed_forward_length"
     gemma_feed_forward_length |-> <<103, 101, 109, 109, 97, 46, 102, 101,
         101, 100, 95, 102, 111, 114, 119, 97, 114, 100, 95, 108, 101, 110,
         103, 116, 104>>,
     \* "gemma.attention.head_count"
     gemma_attention_head_count |-> <<103, 101, 109, 109, 97, 46, 97, 116,
         116, 101, 110, 116, 105, 111, 110, 46, 104, 101, 97, 100, 95, 99,
         111, 117, 110, 116>>,
     \* "gemma.attention.head_count_kv"
     gemma_attention_head_count_kv |-> <<103, 101, 109, 109, 97, 46, 97, 116,
         116, 101, 110, 116, 105, 111, 110, 46, 104, 101, 97, 100, 95, 99,
         111, 117, 110, 116, 95, 107, 118>>,
     \* "gemma.attention.layer_norm_rms_epsilon"
     gemma_attention_layer_norm_rms_epsilon |-> <<103, 101, 109, 109, 97, 46,
         97, 116, 116, 101, 110, 116, 105, 111, 110, 46, 108, 97, 121, 101,
         114, 95, 110, 111, 114, 109, 95, 114, 109, 115, 95, 101, 112, 115,
         105, 108, 111, 110>>,
     \* "gemma.attention.key_length"
     gemma_attention_key_length |-> <<103, 101, 109, 109, 97, 46, 97, 116,
         116, 101, 110, 116, 105, 111, 110, 46, 107, 101, 121, 95, 108, 101,
         110, 103, 116, 104>>,
     \* "gemma.attention.value_length"
     gemma_attention_value_length |-> <<103, 101, 109, 109, 97, 46, 97, 116,
         116, 101, 110, 116, 105, 111, 110, 46, 118, 97, 108, 117, 101, 95,
         108, 101, 110, 103, 116, 104>>,
     \* "tokenizer.ggml.eot_token_id"
     tokenizer_ggml_eot_token_id |-> <<116, 111, 107, 101, 110, 105, 122,
         101, 114, 46, 103, 103, 109, 108, 46, 101, 111, 116, 95, 116, 111,
         107, 101, 110, 95, 105, 100>>,
     \* "tokenizer.ggml.middle_token_id"
     tokenizer_ggml_middle_token_id |-> <<116, 111, 107, 101, 110, 105, 122,
         101, 114, 46, 103, 103, 109, 108, 46, 109, 105, 100, 100, 108, 101,
         95, 116, 111, 107, 101, 110, 95, 105, 100>>,
     \* "tokenizer.ggml.prefix_token_id"
     tokenizer_ggml_prefix_token_id |-> <<116, 111, 107, 101, 110, 105, 122,
         101, 114, 46, 103, 103, 109, 108, 46, 112, 114, 101, 102, 105, 120,
         95, 116, 111, 107, 101, 110, 95, 105, 100>>,
     \* "tokenizer.ggml.suffix_token_id"
     tokenizer_ggml_suffix_token_id |-> <<116, 111, 107, 101, 110, 105, 122,
         101, 114, 46, 103, 103, 109, 108, 46, 115, 117, 102, 102, 105, 120,
         95, 116, 111, 107, 101, 110, 95, 105, 100>>,
     \* "_norm.weight"
     norm_weight |-> <<95, 110, 111, 114, 109, 46, 119, 101, 105, 103, 104,
         116>>,
     \* "phi"
     phi |-> <<112, 104, 105>>]

(***************************************************************************)
(* Go's strings and strconv, on byte sequences.  An index is counted from 1 *)
(* and 0 says "not found" (Go: from 0, and -1).                             *)
(***************************************************************************)
\* the places where sep occurs in str
Occurrences(str, sep) ==
    {i \in 1..(Len(str) - Len(sep) + 1) : SubSeq(str, i, i + Len(sep) - 1) = sep}

\* strings.Index
Index(str, sep) ==
    IF Occurrences(str, sep) = {} THEN 0
    ELSE CHOOSE i \in Occurrences(str, sep) : \A j \in Occurrences(str, sep) : i <= j

\* strings.LastIndex
LastIndex(str, sep) ==
    IF Occurrences(str, sep) = {} THEN 0
    ELSE CHOOSE i \in Occurrences(str, sep) : \A j \in Occurrences(str, sep) : i >= j

\* what a cut returns: before, after, ok
CutAt(str, i, sep) ==
    IF i > 0
    THEN [before |-> SubSeq(str, 1, i - 1),
          after |-> SubSeq(str, i + Len(sep), Len(str)), ok |-> TRUE]
    ELSE [before |-> str, after |-> <<>>, ok |-> FALSE]

\* strings.Cut: around the first occurrence of sep
Cut(str, sep) == CutAt(str, Index(str, sep), sep)

\* cutLast: around the last occurrence of sep
cutLast(str, sep) == CutAt(str, LastIndex(str, sep), sep)

\* strings.HasSuffix
HasSuffix(str, suffix) ==
    /\ Len(str) >= Len(suffix)
    /\ SubSeq(str, Len(str) - Len(suffix) + 1, Len(str)) = suffix

RECURSIVE Join(_, _)
\* strings.Join
Join(parts, sep) ==
    IF parts = <<>> THEN <<>>
    ELSE IF Len(parts) = 1 THEN parts[1]
    ELSE parts[1] \o sep \o Join(Tail(parts), sep)

\* the ASCII digits
DigitBytes == 48..57

\* whether strconv.Atoi returns no error: an optional sign, then one or more
\* decimal digits (the strings of the model are too short to overflow an int)
AtoiOK(str) ==
    LET digits == IF str # <<>> /\ str[1] \in {43, 45} THEN Tail(str) ELSE str IN
    /\ digits # <<>>
    /\ \A i \in 1..Len(digits) : digits[i] \in DigitBytes

RECURSIVE Digits(_)
\* the decimal digits of n >= 0, as %d prints them
Digits(n) == IF n < 10 THEN <<48 + n>> ELSE Digits(n \div 10) \o <<48 + (n % 10)>>

\* the flag 0 and the width of %05d: zeros on the left up to w bytes
ZeroPadded(str, w) ==
    IF Len(str) >= w THEN str ELSE [i \in 1..(w - Len(str)) |-> 48] \o str

\* the digits as %d prints them, without the width
DummyToken_Unpadded(i) == Str.dummy_prefix \o Digits(i) \o Str.dummy_suffix

\* fmt.Sprintf("<dummy%05d>", i) for i >= 0
DummyToken(i) == Str.dummy_prefix \o ZeroPadded(Digits(i), 5) \o Str.dummy_suffix

RECURSIVE Log2(_)
\* the position of the highest set bit of n >= 1
Log2(n) == IF n < 2 THEN 0 ELSE 1 + Log2(n \div 2)

\* the IEEE-754 bit pattern of float32(n), as a signed 32-bit number (a
\* negative float has the sign bit set, which makes the number negative:
\* its four little-endian bytes are those of the pattern), for |n| < 2^24
Float32Bits(n) ==
    LET m == IF n < 0 THEN -n ELSE n
        e == Log2(m)
        magnitude == IF m = 0 THEN 0 ELSE (127 + e) * (2 ^ 23) + (m - 2 ^ e) * (2 ^ (23 - e))
    IN IF n < 0 THEN (magnitude - 2147483647) - 1 ELSE magnitude

(***************************************************************************)
(* Token types, convert/tokenizer.go:13-21.                                 *)
(***************************************************************************)
tokenTypeNormal == 1
tokenTypeUnknown == 2
tokenTypeControl == 3
tokenTypeUserDefined == 4
tokenTypeUnused == 5
tokenTypeByte == 6

(***************************************************************************)
(* The vocabulary, convert/tokenizer.go.  tokenizer.json is a record        *)
(* [exists, valid, vocab, added, merges]: vocab is model.vocab (a map from  *)
(* content to id), added is added_tokens (records [ID, Content, Special]).  *)
(***************************************************************************)
\* a token of tokenizer.go
Token(id, content, special, userDefined) ==
    [ID |-> id, Content |-> content, Special |-> special, UserDefined |-> userDefined]

\* the tokens of model.vocab in the order the range over the map visits them
VocabTokens(tk, order) ==
    [i \in 1..Len(order) |-> Token(tk.vocab[order[i]], order[i], FALSE, FALSE)]

\* the added tokens: t.UserDefined = true
AddedTokens(tk) ==
    [i \in 1..Len(tk.added) |->
        Token(tk.added[i].ID, tk.added[i].Content, tk.added[i].Special, TRUE)]

\* slices.SortFunc(tokens, func(i, j token) int { return cmp.Compare(i.ID, j.ID) })
SortTokensByID(tokens) ==
    InsertionSortFrom(tokens, 2,
                      [p \in Elems(tokens) \X Elems(tokens) |-> p[1].ID < p[2].ID])

\* the type switch of parseVocabularyFromTokenizer
TokenType(t) ==
    IF t.Special THEN tokenTypeControl
    ELSE IF t.UserDefined THEN tokenTypeUserDefined
    ELSE tokenTypeNormal

\* the loop that fills the three parallel lists from the sorted tokens
VocabularyOf(tokens, merges) ==
    Vocabulary([i \in 1..Len(tokens) |-> tokens[i].Content],
               [i \in 1..Len(tokens) |-> Float32Bits(tokens[i].ID)],
               [i \in 1..Len(tokens) |-> TokenType(tokens[i])],
               merges)

\* parseVocabularyFromTokenizer on a tokenizer.json that decodes, with order
\* the order the range over model.vocab visits its keys in
parseVocabularyFromTokenizer(tk, order) ==
    VocabularyOf(SortTokensByID(VocabTokens(tk, order) \o AddedTokens(tk)), tk.merges)

\* the orders in which the range over the map patterns may probe the two
\* file names
ProbeOrders == Orderings({"tokenizer.model", "tokenizer.json"})

\* filepath.Glob finds the file
Matches(d, pattern) ==
    IF pattern = "tokenizer.model" THEN d.model.exists ELSE d.tokenizer.exists

\* the first pattern, in probe order, that has a match ("" if none has)
FirstMatch(d, order) ==
    IF Matches(d, order[1]) THEN order[1]
    ELSE IF Matches(d, order[2]) THEN order[2]
    ELSE ""

(***************************************************************************)
(* The special vocabulary.  tokenizer_config.json is a record [exists,      *)
(* valid, entries]: entries maps a key to a JSON value [kind, b, s, has],   *)
(* of kind "bool" (b), "string" (s), "object" (has: it has a string member  *)
(* content, s) or "number".                                                 *)
(***************************************************************************)
JBool(b) == [kind |-> "bool", b |-> b, s |-> <<>>, has |-> FALSE]
JString(str) == [kind |-> "string", b |-> FALSE, s |-> str, has |-> FALSE]
JObject(str) == [kind |-> "object", b |-> FALSE, s |-> str, has |-> TRUE]
JObjectWithout == [kind |-> "object", b |-> FALSE, s |-> <<>>, has |-> FALSE]
JNumber == [kind |-> "number", b |-> FALSE, s |-> <<>>, has |-> FALSE]

SpecialVocabulary(type, id, content, addToken) ==
    [Type |-> type, ID |-> id, Content |-> content, AddToken |-> addToken]

\* Parameters.SpecialTypes
SpecialTypes == <<Str.bos, Str.eos, Str.unk, Str.sep, Str.pad, Str.cls, Str.mask>>

\* the types SpecialVocabulary.Key has a case for
KeyedTypes == {Str.bos, Str.eos, Str.pad, Str.unk}

\* SpecialVocabulary.Key: the switch (a type without a case falls out of the
\* switch into the panic, see KeyPanics)
Key(sv) ==
    CASE sv.Type \in {Str.bos, Str.eos} -> sv.Type
      [] sv.Type = Str.pad -> Str.padding
      [] sv.Type = Str.unk -> Str.unknown
      [] OTHER -> <<>>

\* SpecialVocabulary.Key: panic("unknown special vocabulary type")
KeyPanics(sv) == sv.Type \notin KeyedTypes

\* tokens[t.Content] = t for the added tokens in order: the last one with a
\* content stays
TokensByContent(added) ==
    [c \in {added[i].Content : i \in 1..Len(added)} |->
        added[CHOOSE i \in 1..Len(added) :
                /\ added[i].Content = c
                /\ \A j \in (i + 1)..Len(added) : added[j].Content # c]]

\* fmt.Sprintf("add_%s_token", t) and fmt.Sprintf("%s_token", t)
AddTokenField(t) == Str.add_prefix \o t \o Str.token_suffix
TokenField(t) == t \o Str.token_suffix

\* one iteration of the loop over the types: [err, keep, sv]
SpecialOf(t, p, tokens) ==
    LET addKnown == AddTokenField(t) \in DOMAIN p
        addToken == IF addKnown /\ p[AddTokenField(t)].kind = "bool"
                    THEN p[AddTokenField(t)].b ELSE FALSE
        known == TokenField(t) \in DOMAIN p
        \* the token is neither a string nor an object with a string content
        skipped == /\ known
                   /\ p[TokenField(t)].kind # "string"
                   /\ ~(p[TokenField(t)].kind = "object" /\ p[TokenField(t)].has)
        content == IF known /\ ~skipped THEN p[TokenField(t)].s ELSE <<>>
    IN  IF addKnown /\ p[AddTokenField(t)].kind # "bool"
        THEN [err |-> TRUE, keep |-> FALSE, sv |-> SpecialVocabulary(t, 0, <<>>, FALSE)]
        ELSE IF skipped \/ content \notin DOMAIN tokens
        THEN [err |-> FALSE, keep |-> FALSE, sv |-> SpecialVocabulary(t, 0, content, addToken)]
        ELSE [err |-> FALSE, keep |-> TRUE,
              sv |-> SpecialVocabulary(t, tokens[content].ID, content, addToken)]

RECURSIVE SpecialLoop(_, _, _, _)
\* the loop over the types: [err, svs]
SpecialLoop(types, p, tokens, acc) ==
    IF types = <<>> THEN [err |-> FALSE, svs |-> acc]
    ELSE IF SpecialOf(Head(types), p, tokens).err THEN [err |-> TRUE, svs |-> <<>>]
    ELSE SpecialLoop(Tail(types), p, tokens,
                     IF SpecialOf(Head(types), p, tokens).keep
                     THEN Append(acc, SpecialOf(Head(types), p, tokens).sv)
                     ELSE acc)

\* parseSpecialVocabularyFromTokenizer: [err, svs]
parseSpecialVocabularyFromTokenizer(d, types) ==
    IF d.tokenizer.exists /\ ~d.tokenizer.valid THEN [err |-> TRUE, svs |-> <<>>]
    ELSE IF ~d.tokenizer_config.exists \/ ~d.tokenizer_config.valid
    THEN [err |-> TRUE, svs |-> <<>>]
    ELSE SpecialLoop(types, d.tokenizer_config.entries,
                     IF d.tokenizer.exists THEN TokensByContent(d.tokenizer.added)
                     ELSE EmptyMap,
                     <<>>)

(***************************************************************************)
(* The adapters' metadata.  config.json is a record [state, architectures,  *)
(* vocab_size, fields]: fields holds the members the adapters decode, each  *)
(* 0 when the file does not have it (a float32 is its bit pattern, which is *)
(* positive exactly when the float is).                                     *)
(***************************************************************************)
\* m with key k set to value x
Put(m, k, x) == [y \in DOMAIN m \cup {k} |-> IF y = k THEN x ELSE m[y]]

RECURSIVE PutAll(_, _)
\* m with each [k, x] of the list set, in order
PutAll(m, list) ==
    IF list = <<>> THEN m ELSE PutAll(Put(m, Head(list).k, Head(list).x), Tail(list))

KVPair(k, x) == [k |-> k, x |-> x]

\* fmt.Sprintf("tokenizer.ggml.%s_token_id", key)
TokenIDKey(key) == Str.tokenizer_ggml_prefix \o key \o Str.token_id_suffix

\* fmt.Sprintf("tokenizer.ggml.add_%s_token", key)
AddTokenKey(key) ==
    Str.tokenizer_ggml_prefix \o Str.add_prefix \o key \o Str.token_suffix

\* the two entries Parameters.KV sets for a special vocabulary entry
SpecialPairs(sv) ==
    <<KVPair(TokenIDKey(Key(sv)), Scalar(ggufTypeUint32, sv.ID)),
      KVPair(AddTokenKey(Key(sv)), Scalar(ggufTypeBool, sv.AddToken))>>

RECURSIVE PutSpecials(_, _)
\* the loop of Parameters.KV over the special vocabulary
PutSpecials(m, list) ==
    IF list = <<>> THEN m
    ELSE PutSpecials(PutAll(m, SpecialPairs(Head(list))), Tail(list))

\* Parameters.KV, when Key does not panic
ParametersKV(v, list) ==
    PutSpecials(
        PutAll(EmptyMap,
               <<KVPair(Str.general_file_type, Scalar(ggufTypeUint32, 1)),
                 KVPair(Str.tokenizer_ggml_pre, Scalar(ggufTypeString, Str.default)),
                 KVPair(Str.tokenizer_ggml_tokens, Array(ggufTypeString, v.Tokens)),
                 KVPair(Str.tokenizer_ggml_scores, Array(ggufTypeFloat32, v.Scores)),
                 KVPair(Str.tokenizer_ggml_token_type, Array(ggufTypeInt32, v.Types))>>),
        list)

\* Parameters.KV panics: Key is called on an entry of a type it has no case for
KVPanics(list) == \E i \in 1..Len(list) : KeyPanics(list[i])

RECURSIVE cmpOr(_)
\* cmp.Or: the first argument that is not zero, zero if none is
cmpOr(vals) ==
    IF vals = <<>> THEN 0 ELSE IF Head(vals) # 0 THEN Head(vals) ELSE cmpOr(Tail(vals))

\* the entries of list whose value is set: if x > 0 { kv[k] = x }
Positive(list) == SelectSeq(list, LAMBDA pr : pr.x.e.n > 0)

U32(k, n) == KVPair(k, Scalar(ggufTypeUint32, n))
F32(k, n) == KVPair(k, Scalar(ggufTypeFloat32, n))

\* llama.KV
llamaKV(p, v, list) ==
    LET headCount == cmpOr(<<p.fields.num_attention_heads, p.fields.n_head>>) IN
    PutAll(ParametersKV(v, list),
        <<KVPair(Str.general_architecture, Scalar(ggufTypeString, Str.llama)),
          KVPair(Str.general_name, Scalar(ggufTypeString, Str.llama)),
          U32(Str.llama_block_count,
              cmpOr(<<p.fields.n_layers, p.fields.num_hidden_layers, p.fields.n_layer>>)),
          U32(Str.llama_vocab_size, p.vocab_size)>>
        \o Positive(
          <<U32(Str.llama_context_length,
                cmpOr(<<p.fields.max_position_embeddings, p.fields.n_ctx>>)),
            U32(Str.llama_embedding_length,
                cmpOr(<<p.fields.hidden_size, p.fields.n_embd>>)),
            U32(Str.llama_feed_forward_length,
                cmpOr(<<p.fields.intermediate_size, p.fields.n_inner>>)),
            U32(Str.llama_attention_head_count, headCount)>>)
        \o (IF headCount > 0
            THEN <<U32(Str.llama_rope_dimension_count, p.fields.hidden_size \div headCount)>>
            ELSE <<>>)
        \o Positive(
          <<U32(Str.llama_attention_head_count_kv, p.fields.num_key_value_heads),
            F32(Str.llama_attention_rope_freq_base, p.fields.rope_theta),
            F32(Str.llama_attention_layer_norm_rms_epsilon, p.fields.rms_norm_eps),
            F32(Str.llama_attention_layer_norm_epsilon,
                cmpOr(<<p.fields.layer_norm_eps, p.fields.layer_norm_epsilon,
                        p.fields.norm_epsilon>>)),
            U32(Str.llama_attention_expert_count, p.fields.num_local_experts),
            U32(Str.llama_attention_expert_used_count, p.fields.num_experts_per_tok)>>)
        \o (IF Len(v.Merges) > 0
            THEN <<KVPair(Str.tokenizer_ggml_merges, Array(ggufTypeString, v.Merges))>>
            ELSE <<>>)
        \o <<KVPair(Str.tokenizer_ggml_model, Scalar(ggufTypeString, Str.llama))>>)

\* gemma.KV
gemmaKV(p, v, list) ==
    PutAll(ParametersKV(v, list),
        <<KVPair(Str.general_architecture, Scalar(ggufTypeString, Str.gemma)),
          KVPair(Str.general_name, Scalar(ggufTypeString, Str.gemma)),
          U32(Str.gemma_context_length, p.fields.max_position_embeddings),
          U32(Str.gemma_embedding_length, p.fields.hidden_size),
          U32(Str.gemma_block_count, p.fields.num_hidden_layers),
          U32(Str.gemma_feed_forward_length, p.fields.intermediate_size),
          U32(Str.gemma_attention_head_count, p.fields.num_attention_heads),
          U32(Str.gemma_attention_head_count_kv, p.fields.num_key_value_heads),
          F32(Str.gemma_attention_layer_norm_rms_epsilon, p.fields.rms_norm_eps),
          U32(Str.gemma_attention_key_length, p.fields.head_dim),
          U32(Str.gemma_attention_value_length, p.fields.head_dim),
          KVPair(Str.tokenizer_ggml_model, Scalar(ggufTypeString, Str.llama)),
          U32(Str.tokenizer_ggml_eot_token_id, 107),
          U32(Str.tokenizer_ggml_middle_token_id, 68),
          U32(Str.tokenizer_ggml_prefix_token_id, 67),
          U32(Str.tokenizer_ggml_suffix_token_id, 69)>>)

\* phi.KV
phiKV(p, v, list) ==
    PutAll(ParametersKV(v, list),
        <<KVPair(Str.general_architecture, Scalar(ggufTypeString, Str.phi)),
          KVPair(Str.tokenizer_ggml_model, Scalar(ggufTypeString, Str.llama))>>)

\* c.KV(v, sv) of the adapter Convert selected
ConverterKV(adapter, p, v, list) ==
    CASE adapter = "llama" -> llamaKV(p, v, list)
      [] adapter = "gemma" -> gemmaKV(p, v, list)
      [] OTHER -> phiKV(p, v, list)

(***************************************************************************)
(* Tensor names.  tensorName returns [name, err].  A tensor parseTensors    *)
(* found is a record [id, Name, Kind, Shape, fails]: fails says whether     *)
(* writing its payload returns an error.                                    *)
(***************************************************************************)
\* fmt.Errorf("invalid tensor name: %q", n)
InvalidName == [name |-> <<>>, err |-> TRUE]

\* strings.Join(append(parts, suffix), "."), nil
Named(parts) == [name |-> Join(parts, Str.dot), err |-> FALSE]

\* the table with the stems of the query and the key projection exchanged
llamaStems_Exchanged ==
    (Str.input_layernorm :> Str.attn_norm)
      @@ (Str.self_attn_q_proj :> Str.attn_k)
      @@ (Str.self_attn_k_proj :> Str.attn_q)
      @@ (Str.self_attn_v_proj :> Str.attn_v)
      @@ (Str.self_attn_o_proj :> Str.attn_output)
      @@ (Str.mlp_gate_proj :> Str.ffn_gate)
      @@ (Str.mlp_down_proj :> Str.ffn_down)
      @@ (Str.mlp_up_proj :> Str.ffn_up)
      @@ (Str.post_attention_layernorm :> Str.ffn_norm)

\* the inner switch of llama.tensorName: the canonical stem of a layer's tensor
llamaStems ==
    (Str.input_layernorm :> Str.attn_norm)
      @@ (Str.self_attn_q_proj :> Str.attn_q)
      @@ (Str.self_attn_k_proj :> Str.attn_k)
      @@ (Str.self_attn_v_proj :> Str.attn_v)
      @@ (Str.self_attn_o_proj :> Str.attn_output)
      @@ (Str.mlp_gate_proj :> Str.ffn_gate)
      @@ (Str.mlp_down_proj :> Str.ffn_down)
      @@ (Str.mlp_up_proj :> Str.ffn_up)
      @@ (Str.post_attention_layernorm :> Str.ffn_norm)

\* the inner switch of gemma.tensorName
gemmaStems ==
    (Str.input_layernorm :> Str.attn_norm)
      @@ (Str.self_attn_q_proj :> Str.attn_q)
      @@ (Str.self_attn_k_proj :> Str.attn_k)
      @@ (Str.self_attn_v_proj :> Str.attn_v)
      @@ (Str.self_attn_o_proj :> Str.attn_output)
      @@ (Str.mlp_gate_proj :> Str.ffn_gate)
      @@ (Str.mlp_down_proj :> Str.ffn_down)
      @@ (Str.mlp_up_proj :> Str.ffn_up)
      @@ (Str.post_attention_layernorm :> Str.ffn_norm)

\* model.layers.<layer>.<stem>, the name after "model." being rest
layerTensorName(rest, suffix, stems) ==
    LET layers == Cut(rest, Str.dot)
        layer == Cut(layers.after, Str.dot)
    IN  IF ~layers.ok \/ layers.before # Str.layers THEN InvalidName
        ELSE IF ~layer.ok THEN InvalidName
        ELSE IF ~AtoiOK(layer.before) THEN InvalidName
        ELSE IF layer.after \notin DOMAIN stems THEN InvalidName
        ELSE Named(<<Str.blk, layer.before, stems[layer.after], suffix>>)

\* the part llama.tensorName and gemma.tensorName share: the name n without
\* its suffix is cut at the first dot, and the prefix must be "model"
modelTensorName(n, suffix, stems) ==
    LET c == Cut(n, Str.dot) IN
    IF ~c.ok THEN InvalidName
    ELSE IF c.before # Str.model THEN InvalidName
    ELSE IF c.after = Str.embed_tokens THEN Named(<<Str.token_embd, suffix>>)
    ELSE IF c.after = Str.norm THEN Named(<<Str.output_norm, suffix>>)
    ELSE layerTensorName(c.after, suffix, stems)

\* llama.tensorName without the case of lm_head
llamaTensorName_NoLmHead(n) ==
    LET c == cutLast(n, Str.dot) IN
    IF ~c.ok \/ c.after # Str.weight THEN InvalidName
    ELSE modelTensorName(c.before, c.after, llamaStems)

\* llama.tensorName
llamaTensorName(n) ==
    LET c == cutLast(n, Str.dot) IN
    IF ~c.ok \/ c.after # Str.weight THEN InvalidName
    ELSE IF c.before = Str.lm_head THEN Named(<<Str.output, c.after>>)
    ELSE modelTensorName(c.before, c.after, llamaStems)

\* gemma.tensorName
gemmaTensorName(n) ==
    LET c == cutLast(n, Str.dot) IN
    IF ~c.ok \/ c.after # Str.weight THEN InvalidName
    ELSE modelTensorName(c.before, c.after, gemmaStems)

\* phi.tensorName
phiTensorName(n) == [name |-> n, err |-> FALSE]

\* the llm.Tensor an adapter builds: Name, Kind, Shape and the tensor as the
\* payload provider; Offset is left zero; repacker is the repacker set on it
ConvertedTensor(t, name, repacker) ==
    [id |-> t.id, Name |-> name, Kind |-> t.Kind, Shape |-> t.Shape, Offset |-> 0,
     fails |-> t.fails, repacker |-> repacker]

RECURSIVE llamaTensors(_)
\* llama.Tensors: the tensors whose name maps, in order
llamaTensors(list) ==
    IF list = <<>> THEN <<>>
    ELSE IF llamaTensorName(Head(list).Name).err THEN llamaTensors(Tail(list))
    ELSE <<ConvertedTensor(Head(list), llamaTensorName(Head(list).Name).name,
                           IF \/ HasSuffix(llamaTensorName(Head(list).Name).name,
                                           Str.attn_q_weight)
                              \/ HasSuffix(llamaTensorName(Head(list).Name).name,
                                           Str.attn_k_weight)
                           THEN "repack" ELSE "")>>
         \o llamaTensors(Tail(list))

RECURSIVE gemmaTensors(_)
\* gemma.Tensors
gemmaTensors(list) ==
    IF list = <<>> THEN <<>>
    ELSE IF gemmaTensorName(Head(list).Name).err THEN gemmaTensors(Tail(list))
    ELSE <<ConvertedTensor(Head(list), gemmaTensorName(Head(list).Name).name,
                           IF HasSuffix(gemmaTensorName(Head(list).Name).name,
                                        Str.norm_weight)
                           THEN "addOne" ELSE "")>>
         \o gemmaTensors(Tail(list))

\* phi.Tensors: nothing
phiTensors(list) == <<>>

\* every input is returned, rejected names included, under the adapter's name
\* for it
ConverterTensors_Unfiltered(adapter, list) ==
    [i \in 1..Len(list) |->
        ConvertedTensor(list[i],
                        IF adapter = "gemma" THEN gemmaTensorName(list[i].Name).name
                        ELSE llamaTensorName(list[i].Name).name, "")]

\* c.Tensors(ts) of the adapter Convert selected
ConverterTensors(adapter, list) ==
    CASE adapter = "llama" -> llamaTensors(list)
      [] adapter = "gemma" -> gemmaTensors(list)
      [] OTHER -> phiTensors(list)

\* c.tensorName(n) of the adapter
ConverterTensorName(adapter, n) ==
    CASE adapter = "llama" -> llamaTensorName(n)
      [] adapter = "gemma" -> gemmaTensorName(n)
      [] OTHER -> phiTensorName(n)

(***************************************************************************)
(* The directories handed to Convert.  A directory is a record [name,       *)
(* config, model, tokenizer, tokenizer_config, tensors]: config.json,       *)
(* tokenizer.model (with the vocabulary parseSentencePiece returns for it,  *)
(* or its failure), tokenizer.json, tokenizer_config.json, and what         *)
(* parseTensors returns.                                                    *)
(***************************************************************************)
\* the largest vocab_size of a config.json
MaxVocabSize == 14

\* token contents: "a", "b", "<s>", "</s>", "[SEP]", "n"
TokenA == <<97>>
TokenB == <<98>>
TokenBOS == <<60, 115, 62>>
TokenEOS == <<60, 47, 115, 62>>
TokenSEP == <<91, 83, 69, 80, 93>>
TokenNone == <<110>>

\* the members of config.json the adapters decode; 0 is "not there"
NoFields ==
    [n_layers |-> 0, num_hidden_layers |-> 0, n_layer |-> 0,
     max_position_embeddings |-> 0, n_ctx |-> 0, hidden_size |-> 0, n_embd |-> 0,
     intermediate_size |-> 0, n_inner |-> 0, num_attention_heads |-> 0, n_head |-> 0,
     num_key_value_heads |-> 0, rope_theta |-> 0, rms_norm_eps |-> 0,
     layer_norm_eps |-> 0, layer_norm_epsilon |-> 0, norm_epsilon |-> 0,
     num_local_experts |-> 0, num_experts_per_tok |-> 0, head_dim |-> 0]

\* a config.json with the usual members (rope_theta 10000.0, rms_norm_eps 1e-05)
UsualFields ==
    [NoFields EXCEPT !.num_hidden_layers = 2, !.max_position_embeddings = 64,
                     !.hidden_size = 8, !.intermediate_size = 16,
                     !.num_attention_heads = 2, !.num_key_value_heads = 1,
                     !.rope_theta = 1176256512, !.rms_norm_eps = 925353388,
                     !.head_dim = 4]

\* a config.json with the alternative member names
OtherFields ==
    [NoFields EXCEPT !.n_layer = 3, !.n_ctx = 32, !.n_embd = 6, !.n_inner = 12,
                     !.n_head = 3, !.norm_epsilon = 925353388,
                     !.num_local_experts = 4, !.num_experts_per_tok = 2]

\* state: "missing", "undecodable" (the first decoding fails), "badfields"
\* (the decoding into the adapter fails) or "ok"
ConfigFile(state, architectures, vocabSize, fields) ==
    [state |-> state, architectures |-> architectures, vocab_size |-> vocabSize,
     fields |-> fields]

TokenizerFile(exists, valid, vocabMap, added, merges) ==
    [exists |-> exists, valid |-> valid, vocab |-> vocabMap, added |-> added,
     merges |-> merges]

NoTokenizer == TokenizerFile(FALSE, FALSE, EmptyMap, <<>>, <<>>)

AddedToken(id, content, special) == [ID |-> id, Content |-> content, Special |-> special]

\* tokenizer.model: whether it is there, whether parseSentencePiece fails on
\* it, and the vocabulary it returns
ModelFile(exists, fails) ==
    [exists |-> exists, fails |-> fails,
     vocabulary |-> Vocabulary(<<TokenNone, TokenA>>, <<0, Float32Bits(-1)>>,
                               <<tokenTypeUnknown, tokenTypeNormal>>, <<>>)]

ConfigJSON(exists, valid, entries) ==
    [exists |-> exists, valid |-> valid, entries |-> entries]

\* what parseTensors returns: an error, or the tensors
TensorFiles(fails, list) == [fails |-> fails, list |-> list]

\* a tensor parseTensors found: 8 bytes of F32
FoundTensor(id, name, fails) ==
    [id |-> id, Name |-> name, Kind |-> 0, Shape |-> <<2>>, fails |-> fails]

Directory(config, model, tokenizer, tokenizerConfig, tensors) ==
    [name |-> "d", config |-> config, model |-> model, tokenizer |-> tokenizer,
     tokenizer_config |-> tokenizerConfig, tensors |-> tensors]

\* architectures lists: none, each supported name, an unsupported one, and
\* lists whose later elements differ in kind from the first
ArchitectureLists ==
    {<<>>, <<"LlamaForCausalLM">>, <<"MistralForCausalLM">>, <<"MixtralForCausalLM">>,
     <<"GemmaForCausalLM">>, <<"PhiForCausalLM">>, <<"Phi3ForCausalLM">>,
     <<"FooBarForCausalLM">>, <<"FooBarForCausalLM", "LlamaForCausalLM">>,
     <<"LlamaForCausalLM", "FooBarForCausalLM">>,
     <<"GemmaForCausalLM", "PhiForCausalLM">>, <<"Phi3ForCausalLM", "GemmaForCausalLM">>}

\* tokenizer.json files: the usual one; an empty one; one with ids out of
\* order and an id used twice; one with merges
TokenizerSmall ==
    TokenizerFile(TRUE, TRUE, (TokenA :> 0) @@ (TokenB :> 1),
                  <<AddedToken(2, TokenBOS, TRUE)>>, <<>>)

TokenizerFiles ==
    {NoTokenizer,
     TokenizerFile(TRUE, FALSE, EmptyMap, <<>>, <<>>),
     TokenizerSmall,
     TokenizerFile(TRUE, TRUE, EmptyMap, <<>>, <<>>),
     TokenizerFile(TRUE, TRUE, (TokenA :> 3) @@ (TokenB :> 0),
                   <<AddedToken(3, TokenEOS, FALSE), AddedToken(1, TokenBOS, TRUE)>>, <<>>),
     TokenizerFile(TRUE, TRUE, (TokenA :> 0) @@ (TokenB :> 1), <<>>,
                   <<TokenA \o <<32>> \o TokenB>>)}

\* the tokenizer.json of the directories that vary tokenizer_config.json: the
\* content "<s>" is added twice
TokenizerSpecial ==
    TokenizerFile(TRUE, TRUE, (TokenA :> 0),
                  <<AddedToken(1, TokenBOS, TRUE), AddedToken(2, TokenEOS, TRUE),
                    AddedToken(3, TokenSEP, TRUE), AddedToken(4, TokenBOS, TRUE)>>, <<>>)

\* tokenizer.json files whose added tokens are listed in model.vocab too,
\* with the same ids, and whose ids leave gaps
TokenizerOverlap ==
    TokenizerFile(TRUE, TRUE,
                  (TokenA :> 0) @@ (TokenBOS :> 1) @@ (TokenB :> 2) @@ (TokenEOS :> 3),
                  <<AddedToken(1, TokenBOS, TRUE), AddedToken(3, TokenEOS, TRUE)>>, <<>>)

TokenizerGaps ==
    TokenizerFile(TRUE, TRUE, (TokenA :> 0), <<AddedToken(5, TokenBOS, TRUE)>>, <<>>)

\* what tokenizer_config.json may say of a type's token, and of its add flag
TokenSettings ==
    {JString(TokenBOS), JObject(TokenEOS), JString(TokenSEP), JString(TokenNone),
     JObjectWithout, JNumber}

AddSettings == {JBool(TRUE), JBool(FALSE), JString(TokenA)}

\* the entries of a tokenizer_config.json that speaks of one type: its token,
\* its add flag, or both
EntriesOfType(t) ==
    {(TokenField(t) :> x) : x \in TokenSettings}
    \cup {(AddTokenField(t) :> y) : y \in AddSettings}
    \cup {(TokenField(t) :> x) @@ (AddTokenField(t) :> y) :
            x \in {JString(TokenBOS), JObject(TokenEOS)}, y \in AddSettings}

\* a tokenizer_config.json that resolves bos, eos, pad and unk
EntriesUsual ==
    (TokenField(Str.bos) :> JString(TokenBOS)) @@ (AddTokenField(Str.bos) :> JBool(TRUE))
      @@ (TokenField(Str.eos) :> JObject(TokenEOS)) @@ (AddTokenField(Str.eos) :> JBool(FALSE))
      @@ (TokenField(Str.pad) :> JString(TokenEOS))
      @@ (TokenField(Str.unk) :> JString(TokenSEP)) @@ (AddTokenField(Str.unk) :> JBool(TRUE))

SpecialEntries ==
    {EmptyMap, EntriesUsual}
    \cup UNION {EntriesOfType(SpecialTypes[i]) : i \in 1..Len(SpecialTypes)}

\* tensor names: the two fixed ones, lm_head, the layers' (layers "0" and
\* "10"), and names tensorName may reject
LayerTensor(layer, stem) ==
    Join(<<Str.model, Str.layers, layer, stem, Str.weight>>, Str.dot)

LayerIndices == {<<48>>, <<49, 48>>}

FoundNames ==
    {Join(<<Str.model, Str.embed_tokens, Str.weight>>, Str.dot),
     Join(<<Str.model, Str.norm, Str.weight>>, Str.dot),
     Join(<<Str.lm_head, Str.weight>>, Str.dot)}
    \cup {LayerTensor(layer, stem) : layer \in LayerIndices, stem \in DOMAIN llamaStems}
    \cup {Str.weight,
          Join(<<Str.model, Str.weight>>, Str.dot),
          Join(<<Str.model, Str.embed_tokens, <<98, 105, 97, 115>>>>, Str.dot),
          Join(<<Str.blk, <<48>>, Str.attn_q, Str.weight>>, Str.dot),
          Join(<<Str.model, Str.layers, <<48>>, Str.weight>>, Str.dot),
          Join(<<Str.model, Str.blk, <<48>>, Str.input_layernorm, Str.weight>>, Str.dot),
          LayerTensor(<<120>>, Str.input_layernorm),
          LayerTensor(<<45, 49>>, Str.input_layernorm),
          LayerTensor(<<48, 48, 55>>, Str.mlp_up_proj),
          LayerTensor(<<48>>, Str.attn_q)}

\* a tensor parseTensors found with another kind and shape
KindShape(t, kind, shape) == [t EXCEPT !.Kind = kind, !.Shape = shape]

\* lists in which names tensorName accepts and names it rejects are mixed,
\* with tensors of both kinds and of different shapes
MixedLists ==
    LET A == KindShape(FoundTensor(1, Join(<<Str.model, Str.embed_tokens, Str.weight>>, Str.dot),
                                   FALSE), 1, <<2, 1>>)
        B == KindShape(FoundTensor(2, LayerTensor(<<48>>, Str.self_attn_q_proj), FALSE),
                       0, <<1, 2>>)
        R == KindShape(FoundTensor(3, Join(<<Str.blk, <<48>>, Str.attn_q, Str.weight>>, Str.dot),
                                   FALSE), 1, <<3>>)
        Q == FoundTensor(4, LayerTensor(<<120>>, Str.input_layernorm), FALSE)
        L == FoundTensor(5, Join(<<Str.lm_head, Str.weight>>, Str.dot), FALSE)
    IN  {<<A, R, B>>, <<R, A, B>>, <<B, A, R>>, <<R, Q>>, <<B, R, Q, A>>, <<L, R, A>>}

\* lists of tensors: each name alone, and lists of two and three of which one
\* may fail to write its payload
FoundLists ==
    MixedLists \cup
    {<<FoundTensor(1, n, FALSE)>> : n \in FoundNames}
    \cup {<<FoundTensor(1, LayerTensor(<<48>>, Str.self_attn_q_proj), f = 1),
            FoundTensor(2, Join(<<Str.model, Str.embed_tokens, Str.weight>>, Str.dot), f = 2),
            FoundTensor(3, Join(<<Str.model, Str.norm, Str.weight>>, Str.dot), f = 3)>> :
            f \in 0..3}
    \cup {<<>>}

UsualConfig == ConfigFile("ok", <<"PhiForCausalLM">>, 0, NoFields)
UsualSpecial == ConfigJSON(TRUE, TRUE, EntriesUsual)

Directories ==
    \* config.json varies
    {Directory(ConfigFile(st, <<"LlamaForCausalLM">>, 0, NoFields),
               ModelFile(FALSE, FALSE), TokenizerSmall, UsualSpecial,
               TensorFiles(FALSE, <<>>)) : st \in {"missing", "undecodable", "badfields"}}
    \cup
    {Directory(ConfigFile(st, archs, 3, fields),
               ModelFile(FALSE, FALSE), TokenizerSmall, UsualSpecial,
               TensorFiles(FALSE, <<>>)) :
        st \in {"ok", "badfields"}, archs \in ArchitectureLists,
        fields \in {NoFields, UsualFields, OtherFields}}
    \cup
    \* the tokenizer files and vocab_size vary
    {Directory(ConfigFile("ok", <<"PhiForCausalLM">>, size, NoFields),
               ModelFile(m[1], m[2]), tk, ConfigJSON(TRUE, TRUE, EmptyMap),
               TensorFiles(FALSE, <<>>)) :
        size \in {0, 3, MaxVocabSize},
        m \in {<<FALSE, FALSE>>, <<TRUE, FALSE>>, <<TRUE, TRUE>>},
        tk \in TokenizerFiles}
    \cup
    \* tokenizer_config.json varies
    {Directory(UsualConfig, ModelFile(FALSE, FALSE), TokenizerSpecial,
               ConfigJSON(TRUE, TRUE, entries), TensorFiles(FALSE, <<>>)) :
        entries \in SpecialEntries}
    \cup
    {Directory(UsualConfig, ModelFile(m, FALSE), tk, cj, TensorFiles(FALSE, <<>>)) :
        m \in BOOLEAN, tk \in {NoTokenizer, TokenizerSpecial},
        cj \in {ConfigJSON(FALSE, FALSE, EmptyMap), ConfigJSON(TRUE, FALSE, EmptyMap),
                ConfigJSON(TRUE, TRUE, EntriesUsual)}}
    \cup
    \* the ids of tokenizer.json vary, tokenizer_config.json names the tokens
    {Directory(UsualConfig, ModelFile(FALSE, FALSE), tk, UsualSpecial,
               TensorFiles(FALSE, <<>>)) : tk \in {TokenizerOverlap, TokenizerGaps}}
    \cup
    \* the tensors vary
    {Directory(ConfigFile("ok", archs, 0, NoFields), ModelFile(FALSE, FALSE),
               TokenizerFile(TRUE, TRUE, EmptyMap, <<>>, <<>>),
               ConfigJSON(TRUE, TRUE, EmptyMap), TensorFiles(fails, list)) :
        archs \in {<<"LlamaForCausalLM">>, <<"GemmaForCausalLM">>, <<"PhiForCausalLM">>},
        fails \in BOOLEAN, list \in FoundLists}

(***************************************************************************)
(* Convert, step by step.  An error Convert returns ends it in "failed", a  *)
(* panic in "panicked"; the call of WriteGGUF hands over to the writer's    *)
(* steps.                                                                   *)
(***************************************************************************)
\* the element of architectures the switch looks at is the last one
Dispatched_Last(architectures) == architectures[Len(architectures)]

\* the element of architectures the switch looks at: p.Architectures[0]
Dispatched(architectures) == architectures[1]

\* the switch of Convert: the adapter of an architecture name, "" for none
AdapterOf(architecture) ==
    CASE architecture \in {"LlamaForCausalLM", "MistralForCausalLM", "MixtralForCausalLM"} ->
            "llama"
      [] architecture = "GemmaForCausalLM" -> "gemma"
      [] architecture \in {"PhiForCausalLM", "Phi3ForCausalLM"} -> "phi"
      [] OTHER -> ""

\* lines 53-86: config.json is opened and decoded, the adapter is selected
\* and config.json is decoded again into it: [err, adapter]
SelectConverter(config) ==
    IF config.state = "missing" THEN [err |-> "open config.json", adapter |-> ""]
    ELSE IF config.state = "undecodable" THEN [err |-> "decode config.json", adapter |-> ""]
    ELSE IF Len(config.architectures) < 1 THEN [err |-> "unknown architecture", adapter |-> ""]
    ELSE IF AdapterOf(Dispatched(config.architectures)) = ""
    THEN [err |-> "unsupported architecture", adapter |-> ""]
    ELSE IF config.state = "badfields" THEN [err |-> "decode config.json", adapter |-> ""]
    ELSE [err |-> "", adapter |-> AdapterOf(Dispatched(config.architectures))]

\* parseVocabulary with the probe order and the order of model.vocab the run
\* happens to have: [err, v, parser]
parseVocabulary(d, probes, order) ==
    CASE FirstMatch(d, probes) = "" ->
            [err |-> "unknown tensor format", v |-> NoVocabulary, parser |-> ""]
      [] FirstMatch(d, probes) = "tokenizer.model" ->
            IF d.model.fails
            THEN [err |-> "sentencepiece", v |-> NoVocabulary, parser |-> "sentencepiece"]
            ELSE [err |-> "", v |-> d.model.vocabulary, parser |-> "sentencepiece"]
      [] OTHER ->
            IF ~d.tokenizer.valid
            THEN [err |-> "decode tokenizer.json", v |-> NoVocabulary,
                  parser |-> "tokenizer.json"]
            ELSE [err |-> "", v |-> parseVocabularyFromTokenizer(d.tokenizer, order),
                  parser |-> "tokenizer.json"]

\* the dummy token is appended to the tokens only
AppendDummy_TokensOnly(v, i) == [v EXCEPT !.Tokens = Append(@, DummyToken(i))]

\* one iteration of the padding loop: a dummy token, score -1, type
\* UserDefined
AppendDummy(v, i) ==
    [v EXCEPT !.Tokens = Append(@, DummyToken(i)),
              !.Scores = Append(@, Float32Bits(-1)),
              !.Types = Append(@, tokenTypeUserDefined)]

\* the number of iterations of the padding loop: vocabSize - len(v.Tokens)
\* when vocabSize > len(v.Tokens), evaluated once, before the loop
PadCount(vocabSize, v) ==
    IF vocabSize > Len(v.Tokens) THEN vocabSize - Len(v.Tokens) ELSE 0

ConvertInit ==
    /\ dir \in Directories
    /\ conv = ""
    /\ vocab = NoVocabulary
    /\ vocab0 = NoVocabulary
    /\ svs = <<>>
    /\ parser = ""
    /\ rp = NoRepack
    /\ pc = "convert"
    /\ kv = EmptyMap
    /\ ts = <<>>
    /\ ts0 = <<>>
    /\ keys = <<>>
    /\ file = <<>>
    /\ idx = 1
    /\ s = 0
    /\ err = NoError
    /\ events = <<>>
    /\ decoded = NoModel
    /\ src = NoSource

\* lines 53-86
ReadConfig ==
    /\ pc = "convert"
    /\ IF SelectConverter(dir.config).err # ""
       THEN /\ pc' = "failed"
            /\ err' = Failure(SelectConverter(dir.config).err)
            /\ conv' = conv
       ELSE /\ pc' = "vocabulary"
            /\ err' = err
            /\ conv' = SelectConverter(dir.config).adapter
    /\ UNCHANGED <<kv, ts, ts0, keys, file, idx, s, events, decoded, src>>
    /\ UNCHANGED <<dir, vocab, vocab0, svs, parser, rp>>

\* lines 88-91: v, err := parseVocabulary(d)
ParseVocabulary ==
    /\ pc = "vocabulary"
    /\ \E probes \in ProbeOrders : \E order \in Orderings(DOMAIN dir.tokenizer.vocab) :
        LET r == parseVocabulary(dir, probes, order) IN
        /\ parser' = r.parser
        /\ IF r.err # ""
           THEN /\ pc' = "failed"
                /\ err' = Failure(r.err)
                /\ UNCHANGED <<vocab, vocab0>>
           ELSE /\ pc' = "special"
                /\ err' = err
                /\ vocab' = r.v
                /\ vocab0' = r.v
    /\ UNCHANGED <<kv, ts, ts0, keys, file, idx, s, events, decoded, src>>
    /\ UNCHANGED <<dir, conv, svs, rp>>

\* lines 93-96: sv, err := parseSpecialVocabulary(d, c.SpecialTypes())
ParseSpecialVocabulary ==
    /\ pc = "special"
    /\ LET r == parseSpecialVocabularyFromTokenizer(dir, SpecialTypes) IN
        IF r.err
        THEN /\ pc' = "failed"
             /\ err' = Failure("special vocabulary")
             /\ svs' = svs
        ELSE /\ pc' = "pad"
             /\ err' = err
             /\ svs' = r.svs
    /\ idx' = 1
    /\ UNCHANGED <<kv, ts, ts0, keys, file, s, events, decoded, src>>
    /\ UNCHANGED <<dir, conv, vocab, vocab0, parser, rp>>

\* lines 98-105: one iteration of the padding loop, i = idx - 1
PadVocabulary ==
    /\ pc = "pad"
    /\ idx <= PadCount(dir.config.vocab_size, vocab0)
    /\ vocab' = AppendDummy(vocab, idx - 1)
    /\ idx' = idx + 1
    /\ UNCHANGED <<kv, ts, ts0, keys, file, pc, s, err, events, decoded, src>>
    /\ UNCHANGED <<dir, conv, vocab0, svs, parser, rp>>

\* lines 107-110: ts, err := parseTensors(d)
ParseTensors ==
    /\ pc = "pad"
    /\ idx > PadCount(dir.config.vocab_size, vocab0)
    /\ IF dir.tensors.fails
       THEN /\ pc' = "failed"
            /\ err' = Failure("tensors")
       ELSE /\ pc' = "write"
            /\ err' = err
    /\ UNCHANGED <<kv, ts, ts0, keys, file, idx, s, events, decoded, src, cvars>>

\* line 112: c.KV(v, sv), then c.Tensors(ts), then WriteGGUF is entered
CallWriteGGUF ==
    /\ pc = "write"
    /\ IF KVPanics(svs)
       THEN /\ pc' = "panicked"
            /\ UNCHANGED <<kv, ts, ts0>>
       ELSE /\ pc' = "header"
            /\ kv' = ConverterKV(conv, dir.config, vocab, svs)
            /\ ts' = ConverterTensors(conv, dir.tensors.list)
            /\ ts0' = ConverterTensors(conv, dir.tensors.list)
    /\ idx' = 1
    /\ UNCHANGED <<keys, file, s, err, events, decoded, src, cvars>>

ConvertNext ==
    \/ ReadConfig
    \/ ParseVocabulary
    \/ ParseSpecialVocabulary
    \/ PadVocabulary
    \/ ParseTensors
    \/ CallWriteGGUF
    \/ WriteHeader
    \/ WriteKV
    \/ SortTensors
    \/ WriteTensorInfo
    \/ WritePadding
    \/ WriteTensor
    \/ Return

\* Convert on a directory, with WriteGGUF run step by step inside it
ConvertSpec == ConvertInit /\ [][ConvertNext]_vars

(***************************************************************************)
(* The llama repacker.  A dense tensor of the tensor library is a record    *)
(* [shape, data, old, transposeWith]: data is the backing, row-major; old   *)
(* and transposeWith are the shape before and the axes of a transposition   *)
(* T has recorded but that has not moved the data yet (<<>> for none).      *)
(* Axes and indices count from 0, as in the source.                         *)
(***************************************************************************)
\* tensor.New(tensor.WithShape(dims...), tensor.WithBacking(data))
Dense(dims, data) == [shape |-> dims, data |-> data, old |-> <<>>, transposeWith |-> <<>>]

\* the row-major strides of a shape
Strides(shape) == [i \in 1..Len(shape) |-> Product(SubSeq(shape, i + 1, Len(shape)))]

\* the indices, one per axis, of the element at flat position n
Unravel(n, shape) == [i \in 1..Len(shape) |-> (n \div Strides(shape)[i]) % shape[i]]

RECURSIVE Ravel(_, _)
\* the flat position of the element with the given indices
Ravel(ix, strides) ==
    IF ix = <<>> THEN 0 ELSE Head(ix) * Head(strides) + Ravel(Tail(ix), Tail(strides))

\* the shape with its axes permuted: axis i of the result is axis axes[i]
Permute(shape, axes) == [i \in 1..Len(axes) |-> shape[axes[i] + 1]]

\* the data of a tensor of shape old after its axes were permuted, row-major
\* in the permuted shape
Moved(data, old, axes) ==
    [n \in 1..Len(data) |->
        LET new == Unravel(n - 1, Permute(old, axes))
            ix == [d \in 1..Len(old) |->
                      new[CHOOSE i \in 1..Len(axes) : axes[i] + 1 = d]]
        IN  data[Ravel(ix, Strides(old)) + 1]]

\* a Transpose that transposes a matrix when no transposition is recorded
Transpose_Matrix(t) ==
    IF t.old = <<>>
    THEN IF Len(t.shape) = 2
         THEN Dense(Permute(t.shape, <<1, 0>>), Moved(t.data, t.shape, <<1, 0>>))
         ELSE t
    ELSE Dense(t.shape, Moved(t.data, t.old, t.transposeWith))

\* Dense.Transpose: moves the data of a recorded transposition; with none
\* recorded it returns at once
Transpose(t) ==
    IF t.old = <<>> THEN t
    ELSE Dense(t.shape, Moved(t.data, t.old, t.transposeWith))

\* if !t.old.IsZero() { t.Transpose() }: a recorded transposition is carried
\* out before the next one is recorded and before the shape is changed
Settled(t) == IF t.old # <<>> THEN Transpose(t) ELSE t

\* Dense.T: records the transposition (the shape is permuted, the data is
\* not moved): [err, t]
T(t, axes) ==
    IF Len(axes) # Len(t.shape) THEN [err |-> TRUE, t |-> t]
    ELSE [err |-> FALSE,
          t |-> [shape |-> Permute(Settled(t).shape, axes), data |-> Settled(t).data,
                 old |-> Settled(t).shape, transposeWith |-> axes]]

\* Dense.Reshape: the sizes must agree; a recorded transposition is carried
\* out first: [err, t]
Reshape(t, dims) ==
    IF Product(t.shape) # Product(dims) THEN [err |-> TRUE, t |-> t]
    ELSE [err |-> FALSE, t |-> Dense(dims, Settled(t).data)]

\* native.SelectF32(n, 1) and the loop that appends its slices: the backing
\* in order
SelectF32(t) == t.data

\* the result of a repacker: kind is "ok", "error" or "panic"
Repacked(kind, out) == [kind |-> kind, out |-> out]

\* "q_proj.weight" and "k_proj.weight"
QProjWeight == <<113, 95, 112, 114, 111, 106, 46, 119, 101, 105, 103, 104, 116>>
KProjWeight == <<107, 95, 112, 114, 111, 106, 46, 119, 101, 105, 103, 104, 116>>

\* lines 194-199: the dimensions that are not 0
NonZeroDims(shape) == SelectSeq(shape, LAMBDA dim : dim # 0)

\* lines 201-208: the heads of a tensor name, -1 for a name the repacker
\* does not know
HeadsOf(p, name) ==
    IF HasSuffix(name, QProjWeight) THEN p.num_attention_heads
    ELSE IF HasSuffix(name, KProjWeight)
    THEN cmpOr(<<p.num_key_value_heads, p.num_attention_heads>>)
    ELSE -1

\* lines 210-237, for a known name: dims[0] and the division by heads panic
\* for no dimension and for heads 0
repackDims(dims, heads, data) ==
    IF dims = <<>> \/ heads = 0 THEN Repacked("panic", <<>>)
    ELSE
      LET n0 == Dense(dims, data)
          r1 == Reshape(n0, <<heads, 2, (dims[1] \div heads) \div 2>> \o Tail(dims))
          r2 == T(r1.t, <<0, 2, 1, 3>>)
          r3 == Reshape(r2.t, dims)
      IN  IF r1.err THEN Repacked("error", <<>>)
          ELSE IF r2.err THEN Repacked("error", <<>>)
          ELSE IF r3.err THEN Repacked("error", <<>>)
          ELSE Repacked("ok", SelectF32(Transpose(r3.t)))

\* llama.repack
repack(p, name, data, shape) ==
    IF HeadsOf(p, name) = -1 THEN Repacked("error", <<>>)
    ELSE repackDims(NonZeroDims(shape), HeadsOf(p, name), data)

\* the largest number of rows of a repacked tensor
MaxRows == 12

\* the shapes of the tensors handed to the repacker
RepackShapes ==
    {<<4, 4>>, <<4, 2>>, <<2, 3>>, <<8, 2>>, <<6, 1>>, <<MaxRows, 2>>, <<4>>, <<6, 2>>}

\* the names: a query, a key and a value projection
RepackNames ==
    {LayerTensor(<<48>>, Str.self_attn_q_proj), LayerTensor(<<48>>, Str.self_attn_k_proj),
     LayerTensor(<<48>>, Str.self_attn_v_proj)}

\* the calls: the data is 0, 1, 2, ... or 5, 8, 11, ...
RepackCalls ==
    {[name |-> n, shape |-> sh, data |-> [i \in 1..Product(sh) |-> a * (i - 1) + b],
      p |-> [num_attention_heads |-> h, num_key_value_heads |-> g],
      result |-> Repacked("", <<>>)] :
        n \in RepackNames, sh \in RepackShapes, h \in 0..3, g \in 0..2,
        a \in {1}, b \in {0, 5}}

RepackInit ==
    /\ rp \in RepackCalls
    /\ pc = "repack"
    /\ kv = EmptyMap
    /\ ts = <<>>
    /\ ts0 = <<>>
    /\ keys = <<>>
    /\ file = <<>>
    /\ idx = 1
    /\ s = 0
    /\ err = NoError
    /\ events = <<>>
    /\ decoded = NoModel
    /\ src = NoSource
    /\ dir = NoDirectory
    /\ conv = "llama"
    /\ vocab = NoVocabulary
    /\ vocab0 = NoVocabulary
    /\ svs = <<>>
    /\ parser = ""

\* the repacker is called on a tensor's data
Repack ==
    /\ pc = "repack"
    /\ rp' = [rp EXCEPT !.result = repack(rp.p, rp.name, rp.data, rp.shape)]
    /\ pc' = "repacked"
    /\ UNCHANGED <<kv, ts, ts0, keys, file, idx, s, err, events, decoded, src>>
    /\ UNCHANGED <<dir, conv, vocab, vocab0, svs, parser>>

RepackNext == Repack

\* the llama repacker alone, on tensors of every shape
RepackSpec == RepackInit /\ [][RepackNext]_vars

(***************************************************************************)
(* Properties.                                                              *)
(***************************************************************************)
\* the events of one kind, in the order they happened
EventsOf(ops) == SelectSeq(events, LAMBDA e : e.op \in ops)
InfoEvents == EventsOf({"info"})
DataEvents == EventsOf({"data", "datafail"})
PadEvents == EventsOf({"pad"})
KVEvents == EventsOf({"kv"})

Reverse(sq) == [i \in 1..Len(sq) |-> sq[Len(sq) + 1 - i]]

AllWritable == \A k \in DOMAIN kv : Writable(kv[k])

\* C1 as stated: for every metadata map whose values are all writable (and
\* that has no key general.parameter_count, the key the claim calls extra)
\* and every tensor list, decoding the file WriteGGUF wrote returns a model
\* whose metadata has exactly the keys of the map plus
\* general.parameter_count, every key of the map with the value, and the
\* element order, the map gave it.
C1_Original ==
    (pc = "decoded" /\ AllWritable /\ ParameterCountKey \notin DOMAIN kv) =>
        /\ decoded.err = ""
        /\ DOMAIN decoded.kv = (DOMAIN kv) \cup {ParameterCountKey}
        /\ \A k \in DOMAIN kv : decoded.kv[k] = kv[k]

\* C2: when the file WriteGGUF wrote is decoded, the decoded descriptor list
\* has one entry per tensor of the list written, in ascending name order;
\* entry i has the name and kind of the i-th tensor in name order, the
\* offset the writer emitted for it, and its shape reversed.
C2_RoundTripTensors ==
    (pc = "decoded" /\ decoded.err = "") =>
        /\ Len(decoded.tensors) = Len(ts0)
        /\ {ts[i].id : i \in 1..Len(ts)} = 1..Len(ts0)
        /\ \A i \in 1..Len(ts) :
            /\ ts[i] = ts0[ts[i].id]
            /\ decoded.tensors[i].Name = ts[i].Name
            /\ decoded.tensors[i].Kind = ts[i].Kind
            /\ decoded.tensors[i].Offset = InfoEvents[i].off
            /\ decoded.tensors[i].Shape = Reverse(ts[i].Shape)
        /\ \A i, j \in 1..Len(decoded.tensors) :
            i < j => ~StrLess(decoded.tensors[j].Name, decoded.tensors[i].Name)

C2_Witness ==
    /\ pc = "decoded"
    /\ decoded.err = ""
    /\ Len(decoded.tensors) >= 2
    /\ ts0[1].Name # ts0[2].Name
    /\ ts # ts0
    /\ \E i \in 1..Len(ts) : ts[i].Shape # Reverse(ts[i].Shape)

\* the absolute position of the start of the tensor data region: the
\* 32-aligned position right after the descriptor block
DataRegionStart == PadEvents[1].end

\* C3 as stated: the offset recorded in each descriptor is the position of
\* the first byte of that tensor's payload minus the start of the tensor
\* data region.
C3_OffsetIsPayloadPosition ==
    \A i \in 1..Len(DataEvents) :
        DataEvents[i].op = "data" =>
            DataEvents[i].start - DataRegionStart = InfoEvents[i].off

\* C4: the sink position is a multiple of 32 right after the padding that
\* follows the descriptor block and right after the padding that follows
\* every tensor payload.
C4_Alignment ==
    \A i \in 1..Len(events) :
        events[i].op \in {"pad", "data"} => events[i].end % 32 = 0

C4_Witness ==
    /\ pc = "done"
    /\ Len(ts) >= 2
    /\ \E i \in 1..Len(events) :
        /\ events[i].op = "pad"
        /\ events[i].end > events[i].start
    /\ \E i \in 1..Len(ts) : Size(ts[i]) % 32 # 0

\* C5: the metadata keys are emitted in strictly ascending byte order, and
\* once the metadata loop is over every key of the map was emitted exactly
\* once.
C5_KeysAscending ==
    /\ \A i, j \in 1..Len(KVEvents) :
        i < j => StrLess(KVEvents[i].name, KVEvents[j].name)
    /\ pc \in {"info", "data", "done", "decoded"} =>
        /\ Len(KVEvents) = Cardinality(DOMAIN kv)
        /\ {KVEvents[i].name : i \in 1..Len(KVEvents)} = DOMAIN kv

C5_Witness ==
    /\ pc = "info"
    /\ Len(KVEvents) >= 2
    /\ KVEvents[1].name = KeyA
    /\ KVEvents[2].name = KeyAB

\* C6 as stated: of two tensors adjacent in the file the later one's
\* recorded offset is strictly greater than the earlier one's.
C6_Original ==
    \A i \in 1..Len(InfoEvents) :
        i > 1 => InfoEvents[i].off > InfoEvents[i - 1].off

\* C6 (amended): of two tensors adjacent in the file the later one's
\* recorded offset is never smaller than the earlier one's, and it is
\* strictly greater exactly when the earlier tensor's size is not 0.
C6_OffsetsMonotonic ==
    \A i \in 1..Len(InfoEvents) :
        i > 1 =>
            /\ InfoEvents[i].off >= InfoEvents[i - 1].off
            /\ (InfoEvents[i].off > InfoEvents[i - 1].off) <=> (Size(ts[i - 1]) > 0)

C6_Witness ==
    /\ pc = "data"
    /\ Len(InfoEvents) >= 2
    /\ Size(ts[1]) > 0
    /\ InfoEvents[2].off > InfoEvents[1].off

\* the permutations of a tensor list
ListPermutations(list) ==
    {[i \in 1..Len(list) |-> list[p[i]]] : p \in Orderings(1..Len(list))}

\* the bytes in the sink and the error are those every order of the keys and
\* every permutation of the tensor list lead to
SameForAllOrders ==
    \A order \in Orderings(DOMAIN kv) :
        \A list \in ListPermutations(ts0) :
            WriteGGUF(kv, order, list) = [file |-> file, err |-> err]

\* C7 as stated: when WriteGGUF succeeds, every order of the same metadata
\* map and every permutation of the same tensor list give the bytes it
\* emitted.
C7_Original == pc = "done" => SameForAllOrders

NamesDistinct(list) ==
    \A i, j \in 1..Len(list) : i # j => list[i].Name # list[j].Name

\* C7 (amended): when WriteGGUF succeeds on a tensor list in which no two
\* tensors have the same name, every order of the same metadata map and
\* every permutation of the tensor list give the bytes it emitted.
C7_OrderInsensitive == (pc = "done" /\ NamesDistinct(ts0)) => SameForAllOrders

C7_Witness ==
    /\ pc = "done"
    /\ Len(ts0) >= 2
    /\ NamesDistinct(ts0)
    /\ ts # ts0

\* C8: every descriptor is emitted before any payload, the payloads are
\* streamed in the order of the descriptors, which is ascending by name, no
\* payload provider is invoked twice, and when WriteGGUF succeeds every
\* provider was invoked once.
C8_PayloadOrder ==
    /\ \A i, j \in 1..Len(events) :
        (i < j /\ events[i].op \in {"data", "datafail"}) => events[j].op # "info"
    /\ Len(DataEvents) <= Len(InfoEvents)
    /\ \A i \in 1..Len(DataEvents) : DataEvents[i].i = InfoEvents[i].i
    /\ \A i, j \in 1..Len(DataEvents) :
        i < j =>
            /\ ~StrLess(DataEvents[j].name, DataEvents[i].name)
            /\ DataEvents[i].i # DataEvents[j].i
    /\ pc = "done" =>
        /\ {DataEvents[i].i : i \in 1..Len(DataEvents)} = 1..Len(ts0)
        /\ \A i \in 1..Len(DataEvents) : DataEvents[i].op = "data"

C8_Witness ==
    /\ pc = "done"
    /\ Len(DataEvents) >= 2
    /\ DataEvents[1].i = 2

(***************************************************************************)
(* The reader on streams of every version.                                  *)
(***************************************************************************)
RECURSIVE SumOfShapeProducts(_, _)
\* the sum, over the first n tensors of a list, of the product of the
\* dimensions
SumOfShapeProducts(tensors, n) ==
    IF n = 0 THEN 0
    ELSE SumOfShapeProducts(tensors, n - 1) + Product(tensors[n].Shape)

\* the key a stream stores an entry under, as the reader of the stream's
\* version sees it
StoredKey(x, i) ==
    CASE x.version = 1 /\ x.nul -> x.entries[i].k
      [] x.version # 1 /\ x.nul -> x.entries[i].k \o <<0>>
      [] x.version # 1 /\ ~x.nul -> x.entries[i].k
      [] OTHER -> <<>>

\* C9: after a successful Decode, general.parameter_count is present and is
\* the u64 sum, over the decoded tensors, of the product of their shape
\* dimensions, whatever the stream stored under that key, and 0 when there
\* are no tensors.
C9_ParameterCount ==
    (pc = "decoded" /\ decoded.err = "") =>
        /\ ParameterCountKey \in DOMAIN decoded.kv
        /\ decoded.kv[ParameterCountKey] =
               Scalar(ggufTypeUint64, SumOfShapeProducts(decoded.tensors, Len(decoded.tensors)))
        /\ (decoded.tensors = <<>> =>
               decoded.kv[ParameterCountKey] = Scalar(ggufTypeUint64, 0))

\* a stream that stores another parameter count than its tensors have is
\* decoded
C9_Witness ==
    /\ pc = "decoded"
    /\ decoded.err = ""
    /\ Len(decoded.tensors) = 2
    /\ SumOfShapeProducts(decoded.tensors, 2) = 7
    /\ \E i \in 1..Len(src.entries) :
          /\ StoredKey(src, i) = ParameterCountKey
          /\ src.entries[i].val = Scalar(ggufTypeUint64, 9)

\* the string the claim expects for the bytes str framed with a trailing NUL
Carried(str) == IF src.version = 1 THEN str ELSE str \o <<0>>

\* the type tags that are a scalar or the string
ScalarOrStringTags == (0..12) \ {ggufTypeArray}

\* a stream has an entry whose value tag is outside 0..12 or whose array
\* element tag is not a scalar or string tag
HasBadTag(x) ==
    \E i \in 1..Len(x.entries) :
        \/ x.entries[i].val.t \notin 0..12
        \/ /\ x.entries[i].val.t = ggufTypeArray
           /\ x.entries[i].val.et \notin ScalarOrStringTags

\* C10: when every string of a stream of known tags is framed as a 64-bit length
\* len(s) + 1, the bytes s and a NUL, a version 1 stream decodes each of
\* them (keys, string values, string elements of arrays, tensor names) to s,
\* and a version 2 or 3 stream decodes each to s followed by the NUL.
C10_V1StringRule ==
    (pc = "decoded" /\ src.nul /\ ~HasBadTag(src)) =>
        /\ decoded.err = ""
        /\ \A i \in 1..Len(src.entries) :
              LET e == src.entries[i]
                  k == Carried(e.k)
              IN  /\ k \in DOMAIN decoded.kv
                  /\ e.val.t = ggufTypeString =>
                        decoded.kv[k] = Scalar(ggufTypeString, Carried(e.val.e.s))
                  /\ (e.val.t = ggufTypeArray /\ e.val.et = ggufTypeString) =>
                        /\ decoded.kv[k].t = ggufTypeArray
                        /\ Len(decoded.kv[k].a) = Len(e.val.a)
                        /\ \A j \in 1..Len(e.val.a) :
                              decoded.kv[k].a[j].s = Carried(e.val.a[j].s)
        /\ Len(decoded.tensors) = Len(src.tensors)
        /\ \A i \in 1..Len(src.tensors) :
              decoded.tensors[i].Name = Carried(src.tensors[i].Name)

\* a version 1 stream with a string value, an array holding an empty string,
\* an empty key and a tensor name that itself ends in NUL is decoded
C10_Witness ==
    /\ pc = "decoded"
    /\ src.nul
    /\ ~HasBadTag(src)
    /\ src.version = 1
    /\ decoded.err = ""
    /\ \E i \in 1..Len(src.entries) : src.entries[i].val.t = ggufTypeString
    /\ \E i \in 1..Len(src.entries) :
          /\ src.entries[i].val.t = ggufTypeArray
          /\ \E j \in 1..Len(src.entries[i].val.a) : src.entries[i].val.a[j].s = <<>>
    /\ \E i \in 1..Len(src.tensors) : src.tensors[i].Name = <<117, 0>>

(***************************************************************************)
(* Errors of the writer.                                                    *)
(***************************************************************************)
\* the eight kinds of the claim: u32 (tag 4), f32 (6), bool (7), string (8)
\* and the arrays (9) of i32 (5), u32 (4), f32 (6) and string (8)
OfTheEightKinds(val) ==
    \/ val.t \in {4, 6, 7, 8}
    \/ val.t = 9 /\ val.et \in {5, 4, 6, 8}

\* C13: WriteGGUF returns an improper-type error exactly when some key of
\* the map holds a value of a kind outside the eight it writes; the error
\* names a key that holds such a value, and no tensor descriptor, padding or
\* payload was emitted before it; when every value is of the eight kinds no
\* improper-type error is returned.
C13_ImproperType ==
    /\ (pc = "failed" /\ err.kind = "improper type") =>
          /\ err.key \in DOMAIN kv
          /\ ~OfTheEightKinds(kv[err.key])
    /\ (\E k \in DOMAIN kv : ~OfTheEightKinds(kv[k])) =>
          /\ pc \in {"header", "kv", "failed"}
          /\ pc = "failed" => err.kind = "improper type"
          /\ InfoEvents = <<>> /\ PadEvents = <<>> /\ DataEvents = <<>>
    /\ (\A k \in DOMAIN kv : OfTheEightKinds(kv[k])) => err.kind # "improper type"

\* a map whose second key in byte order holds an unwritable value: the first
\* entry is written, the second is refused, the tensor is never described
C13_Witness ==
    /\ pc = "failed"
    /\ err.kind = "improper type"
    /\ Len(KVEvents) = 2
    /\ err.key = KVEvents[2].name
    /\ OfTheEightKinds(kv[KVEvents[1].name])
    /\ ts # <<>>

(***************************************************************************)
(* The caller's tensor list after WriteGGUF.                                *)
(***************************************************************************)
RECURSIVE SizesBefore(_, _)
\* the sum of the sizes of the first n tensors of a list
SizesBefore(list, n) == IF n = 0 THEN 0 ELSE SizesBefore(list, n - 1) + Size(list[n])

\* C18 as stated: after a successful call every descriptor of the caller's
\* list carries the Offset that was written to the file for it, the sum of
\* the sizes of the tensors before it in name order.
C18_Original ==
    pc = "done" =>
        \A i \in 1..Len(ts) :
            /\ ts[i].Offset = InfoEvents[i].off
            /\ ts[i].Offset = SizesBefore(ts, i - 1)

\* C18 (amended): after a successful call the caller's list is the list it
\* handed over sorted by name, every descriptor with the Offset the caller
\* gave it; the sequential offset, the sum of the sizes of the tensors before
\* it in name order, is what was written to the file for it.
C18_CallerOffsetsKept ==
    pc = "done" =>
        /\ ts = SortTensorsByName(ts0)
        /\ \A i \in 1..Len(ts) :
            /\ ts[i].Offset = ts0[ts[i].id].Offset
            /\ InfoEvents[i].off = SizesBefore(ts, i - 1)

\* two tensors handed over out of name order, the later one written at an
\* offset its descriptor does not carry
C18_Witness ==
    /\ pc = "done"
    /\ Len(ts) = 2
    /\ ts # ts0
    /\ InfoEvents[2].off > 0
    /\ ts[2].Offset # InfoEvents[2].off

(***************************************************************************)
(* Errors of the reader.                                                    *)
(***************************************************************************)
\* the strings of a stream are framed the way its version reads them
WellFramed(x) == (x.version = 1) <=> x.nul

\* C14 as stated: when a stream with nothing else wrong has a value tag
\* outside 0..12, or an array whose element tag is not a scalar or string tag
\* (an array of arrays included), Decode fails with the invalid-type error
\* and returns no model.
C14_InvalidTypeRejected ==
    (pc = "decoded" /\ HasBadTag(src) /\ WellFramed(src)) =>
        decoded.err \in {"invalid type", "invalid array type"}

(***************************************************************************)
(* Properties of Convert.                                                   *)
(***************************************************************************)
\* the padding loop of Convert has finished
Padded ==
    \/ pc \in {"write", "header", "kv", "info", "data", "done", "panicked"}
    \/ pc = "pad" /\ idx > PadCount(dir.config.vocab_size, vocab0)
    \/ pc = "failed" /\ err.kind \in {"tensors", "provider", "improper type"}

\* C11: at every point of Convert after the vocabulary was parsed from
\* tokenizer.json, during and after the padding to vocab_size included, the
\* vocabulary's tokens, scores and types have the same length (and so have
\* the three arrays of the metadata built from them)
C11_VocabularyParallel ==
    parser = "tokenizer.json" =>
        /\ Len(vocab.Tokens) = Len(vocab.Scores)
        /\ Len(vocab.Scores) = Len(vocab.Types)
        /\ Str.tokenizer_ggml_tokens \in DOMAIN kv =>
              /\ Len(kv[Str.tokenizer_ggml_tokens].a) = Len(kv[Str.tokenizer_ggml_scores].a)
              /\ Len(kv[Str.tokenizer_ggml_scores].a) = Len(kv[Str.tokenizer_ggml_token_type].a)

\* a vocabulary of tokenizer.json that was padded has been written
C11_Witness ==
    /\ parser = "tokenizer.json"
    /\ pc = "done"
    /\ Len(vocab0.Tokens) > 0
    /\ Len(vocab.Tokens) > Len(vocab0.Tokens)
    /\ Len(kv[Str.tokenizer_ggml_token_type].a) = dir.config.vocab_size

\* "<dummy", the five decimal digits of i, ">"
FiveDigitDummy(i) ==
    <<60, 100, 117, 109, 109, 121>>
      \o [k \in 1..5 |-> 48 + ((i \div (10 ^ (5 - k))) % 10)]
      \o <<62>>

\* C12: when vocab_size V exceeds the length n of the parsed vocabulary,
\* Convert leaves the first n entries as they are and appends exactly V - n
\* entries; appended entry i (at index n + i) is the token "<dummy" + i
\* zero-padded to five digits + ">", with score -1 (float32 bits BF800000)
\* and type UserDefined (4); when V <= n the vocabulary is left as parsed
C12_Padding ==
    Padded =>
        LET n == Len(vocab0.Tokens)
            V == dir.config.vocab_size
        IN  /\ SubSeq(vocab.Tokens, 1, n) = vocab0.Tokens
            /\ SubSeq(vocab.Scores, 1, Len(vocab0.Scores)) = vocab0.Scores
            /\ SubSeq(vocab.Types, 1, Len(vocab0.Types)) = vocab0.Types
            /\ vocab.Merges = vocab0.Merges
            /\ V > n =>
                  /\ Len(vocab.Tokens) = V
                  /\ Len(vocab.Scores) = Len(vocab0.Scores) + (V - n)
                  /\ Len(vocab.Types) = Len(vocab0.Types) + (V - n)
                  /\ \A i \in 0..(V - n - 1) :
                        /\ vocab.Tokens[n + i + 1] = FiveDigitDummy(i)
                        /\ vocab.Scores[Len(vocab0.Scores) + i + 1] = -1082130432
                        /\ vocab.Types[Len(vocab0.Types) + i + 1] = 4
            /\ V <= n => vocab = vocab0

\* more than ten dummy tokens were appended to a vocabulary that was not
\* empty, and written
C12_Witness ==
    /\ pc = "done"
    /\ Len(vocab0.Tokens) > 0
    /\ Len(vocab.Tokens) >= Len(vocab0.Tokens) + 11
    /\ vocab.Tokens[Len(vocab0.Tokens) + 11] = <<60, 100, 117, 109, 109, 121, 48, 48, 48, 49, 48, 62>>
    /\ Len(kv[Str.tokenizer_ggml_tokens].a) = dir.config.vocab_size

\* the adapter the claim names for a first element, "" for any other
NamedAdapter(first) ==
    IF first \in {"LlamaForCausalLM", "MistralForCausalLM", "MixtralForCausalLM"} THEN "llama"
    ELSE IF first = "GemmaForCausalLM" THEN "gemma"
    ELSE IF first \in {"PhiForCausalLM", "Phi3ForCausalLM"} THEN "phi"
    ELSE ""

\* C15: Convert selects the adapter from the first element of architectures
\* only: an empty (or missing) list fails with "unknown architecture"; a
\* first element that names Llama, Mistral or Mixtral selects the llama
\* adapter, Gemma the gemma adapter, Phi or Phi3 the phi adapter; any other
\* first element fails with "unsupported architecture", whatever follows it
\* (config.json being one that decodes)
C15_Dispatch ==
    (pc # "convert" /\ dir.config.state \in {"ok", "badfields"}) =>
        LET a == dir.config.architectures IN
        /\ a = <<>> =>
              pc = "failed" /\ err = Failure("unknown architecture") /\ conv = ""
        /\ (a # <<>> /\ NamedAdapter(a[1]) = "") =>
              pc = "failed" /\ err = Failure("unsupported architecture") /\ conv = ""
        /\ (a # <<>> /\ NamedAdapter(a[1]) # "" /\ dir.config.state = "ok") =>
              /\ conv = NamedAdapter(a[1])
              /\ err.kind \notin {"unknown architecture", "unsupported architecture"}
              /\ pc = "done" =>
                    kv[Str.general_architecture] =
                        Scalar(ggufTypeString,
                               CASE conv = "llama" -> <<108, 108, 97, 109, 97>>
                                 [] conv = "gemma" -> <<103, 101, 109, 109, 97>>
                                 [] OTHER -> <<112, 104, 105>>)

\* a file was written by the gemma adapter for a list whose second element
\* names another adapter
C15_Witness ==
    /\ pc = "done"
    /\ conv = "gemma"
    /\ Len(dir.config.architectures) = 2
    /\ NamedAdapter(dir.config.architectures[2]) = "phi"

\* C16: whenever Convert returns an error (from the decoding of config.json,
\* the architecture dispatch, the discovery of the vocabulary or of the
\* tensors, a metadata value that cannot be written, or a payload provider
\* or repacker failing at write time), no byte has been written to the sink
C16_NoPartialOutput == pc = "failed" => file = <<>>

\* the storage key suffix the claim gives a logical type
ClaimedSuffix(type) ==
    CASE type = Str.pad -> <<112, 97, 100, 100, 105, 110, 103>>
      [] type = Str.unk -> <<117, 110, 107, 110, 111, 119, 110>>
      [] OTHER -> type

\* c.KV(v, sv) has been called
MetadataBuilt == pc \in {"panicked", "header", "kv", "info", "data", "done"}

\* C17: for every resolved special vocabulary entry of a type the adapters
\* request (bos, eos, unk, sep, pad, cls, mask) the key suffix is bos, eos,
\* padding (pad), unknown (unk) or the type itself (sep, cls, mask), and the
\* metadata has tokenizer.ggml.<suffix>_token_id = u32(id) and
\* tokenizer.ggml.add_<suffix>_token = add_token
C17_SpecialKeys ==
    MetadataBuilt =>
        \A i \in 1..Len(svs) :
            /\ TokenIDKey(ClaimedSuffix(svs[i].Type)) \in DOMAIN kv
            /\ kv[TokenIDKey(ClaimedSuffix(svs[i].Type))] = Scalar(ggufTypeUint32, svs[i].ID)
            /\ AddTokenKey(ClaimedSuffix(svs[i].Type)) \in DOMAIN kv
            /\ kv[AddTokenKey(ClaimedSuffix(svs[i].Type))] = Scalar(ggufTypeBool, svs[i].AddToken)

\* parseVocabulary has run
VocabularyProbed == conv # "" /\ pc \notin {"convert", "vocabulary"}

\* C19: parseVocabulary probes tokenizer.model before tokenizer.json: with
\* both files in the directory the SentencePiece parser is the one used, with
\* one of them its parser, with neither the result is the error "unknown
\* tensor format"; the same on every run
C19_ProbeOrder ==
    VocabularyProbed =>
        /\ dir.model.exists => parser = "sentencepiece"
        /\ (~dir.model.exists /\ dir.tokenizer.exists) => parser = "tokenizer.json"
        /\ (~dir.model.exists /\ ~dir.tokenizer.exists) =>
              pc = "failed" /\ err = Failure("unknown tensor format")

\* the nine stems of the claim and, in the same order, their canonical stems
ClaimedWhich ==
    <<Str.input_layernorm, Str.self_attn_q_proj, Str.self_attn_k_proj,
      Str.self_attn_v_proj, Str.self_attn_o_proj, Str.mlp_gate_proj,
      Str.mlp_down_proj, Str.mlp_up_proj, Str.post_attention_layernorm>>

ClaimedCanonical ==
    <<Str.attn_norm, Str.attn_q, Str.attn_k, Str.attn_v, Str.attn_output,
      Str.ffn_gate, Str.ffn_down, Str.ffn_up, Str.ffn_norm>>

\* layer indices: "0", "10", "007"
ClaimedLayers == {<<48>>, <<49, 48>>, <<48, 48, 55>>}

\* "model.layers.<n>.<which>.weight" and "blk.<n>.<canonical>.weight"
SourceName(layer, k) ==
    Str.model \o <<46>> \o Str.layers \o <<46>> \o layer \o <<46>> \o ClaimedWhich[k]
      \o <<46>> \o Str.weight

CanonicalName(layer, k) ==
    Str.blk \o <<46>> \o layer \o <<46>> \o ClaimedCanonical[k] \o <<46>> \o Str.weight

\* the adapter handed tensor i of the directory to WriteGGUF under the name
ConvertedAs(i, name) ==
    \E j \in 1..Len(ts0) : ts0[j].id = dir.tensors.list[i].id /\ ts0[j].Name = name

\* C20: the llama and the gemma adapter name model.embed_tokens.weight
\* token_embd.weight, model.norm.weight output_norm.weight and, for a decimal
\* layer index n and each of the nine stems, model.layers.<n>.<which>.weight
\* blk.<n>.<canonical>.weight, with the canonical stem of the table
C20_TensorNames ==
    (pc \in {"header", "kv", "info", "data", "done"} /\ conv \in {"llama", "gemma"}) =>
        \A i \in 1..Len(dir.tensors.list) :
            /\ dir.tensors.list[i].Name = Str.model \o <<46>> \o Str.embed_tokens \o <<46>> \o Str.weight
                 => ConvertedAs(i, Str.token_embd \o <<46>> \o Str.weight)
            /\ dir.tensors.list[i].Name = Str.model \o <<46>> \o Str.norm \o <<46>> \o Str.weight
                 => ConvertedAs(i, Str.output_norm \o <<46>> \o Str.weight)
            /\ \A layer \in ClaimedLayers : \A k \in 1..9 :
                 dir.tensors.list[i].Name = SourceName(layer, k)
                    => ConvertedAs(i, CanonicalName(layer, k))

\* the gemma adapter wrote the key projection of layer 10 under its canonical
\* name
C20_Witness ==
    /\ pc = "done"
    /\ conv = "gemma"
    /\ Len(dir.tensors.list) = 1
    /\ dir.tensors.list[1].Name = SourceName(<<49, 48>>, 3)
    /\ Len(InfoEvents) = 1
    /\ InfoEvents[1].name = <<98, 108, 107, 46, 49, 48, 46, 97, 116, 116, 110, 95, 107, 46, 119, 101, 105, 103, 104, 116>>

\* "lm_head.weight" and "output.weight"
LmHeadWeight == <<108, 109, 95, 104, 101, 97, 100, 46, 119, 101, 105, 103, 104, 116>>
OutputWeight == <<111, 117, 116, 112, 117, 116, 46, 119, 101, 105, 103, 104, 116>>

\* the adapter handed no tensor to WriteGGUF for tensor i of the directory
Dropped(i) == \A j \in 1..Len(ts0) : ts0[j].id # dir.tensors.list[i].id

\* C21 as stated: the llama and the gemma adapter both rename lm_head.weight
\* to output.weight and keep it in the list of tensors they return
C21_Original ==
    (pc \in {"header", "kv", "info", "data", "done"} /\ conv \in {"llama", "gemma"}) =>
        \A i \in 1..Len(dir.tensors.list) :
            dir.tensors.list[i].Name = LmHeadWeight => ConvertedAs(i, OutputWeight)

\* C21: the llama adapter renames lm_head.weight to output.weight and keeps
\* it; the gemma adapter rejects the name and returns no tensor for it
C21_LmHead ==
    pc \in {"header", "kv", "info", "data", "done"} =>
        \A i \in 1..Len(dir.tensors.list) :
            dir.tensors.list[i].Name = LmHeadWeight =>
                /\ conv = "llama" => ConvertedAs(i, OutputWeight) /\ ~Dropped(i)
                /\ conv = "gemma" => Dropped(i)

\* the llama adapter's output.weight was written for a directory whose only
\* tensor is lm_head.weight
C21_Witness ==
    /\ pc = "done"
    /\ conv = "llama"
    /\ Len(dir.tensors.list) = 1
    /\ dir.tensors.list[1].Name = LmHeadWeight
    /\ Len(InfoEvents) = 1
    /\ InfoEvents[1].name = OutputWeight
    /\ Len(DataEvents) = 1

RECURSIVE AcceptedInputs(_)
\* the inputs whose name the adapter's tensorName accepts, in input order
AcceptedInputs(list) ==
    IF list = <<>> THEN <<>>
    ELSE IF ConverterTensorName(conv, Head(list).Name).err THEN AcceptedInputs(Tail(list))
    ELSE <<Head(list)>> \o AcceptedInputs(Tail(list))

\* C22: for the llama and the gemma adapter, Tensors returns, in input order,
\* one descriptor for each input whose name tensorName accepts, with the
\* canonical name and the input's kind and shape, and none for a rejected
\* name; the call does not fail
C22_TensorsSkipRejected ==
    (conv \in {"llama", "gemma"} /\ pc \in {"header", "kv", "info", "data", "done"}) =>
        LET acc == AcceptedInputs(dir.tensors.list) IN
        /\ Len(ts0) = Len(acc)
        /\ \A j \in 1..Len(acc) :
              /\ ts0[j].id = acc[j].id
              /\ ts0[j].Name = ConverterTensorName(conv, acc[j].Name).name
              /\ ts0[j].Kind = acc[j].Kind
              /\ ts0[j].Shape = acc[j].Shape
        /\ \A i \in 1..Len(dir.tensors.list) :
              ConverterTensorName(conv, dir.tensors.list[i].Name).err => Dropped(i)

\* four inputs of which the second and the third were rejected: the two
\* others were written
C22_Witness ==
    /\ pc = "done"
    /\ conv = "llama"
    /\ Len(dir.tensors.list) = 4
    /\ Len(ts0) = 2
    /\ ts0[1].id = 2 /\ ts0[1].Shape = <<1, 2>> /\ ts0[1].Kind = 0
    /\ ts0[2].id = 1 /\ ts0[2].Shape = <<2, 1>> /\ ts0[2].Kind = 1
    /\ Len(DataEvents) = 2

\* C23: the phi adapter's Tensors returns every input with its name, kind
\* and shape unchanged and with no repacker, so as many tensors are written
\* as the directory holds
C23_PhiTensorsKept ==
    (conv = "phi" /\ pc \in {"header", "kv", "info", "data", "done"}) =>
        /\ Len(ts0) = Len(dir.tensors.list)
        /\ \A i \in 1..Len(ts0) :
              /\ ts0[i].Name = dir.tensors.list[i].Name
              /\ ts0[i].Kind = dir.tensors.list[i].Kind
              /\ ts0[i].Shape = dir.tensors.list[i].Shape
              /\ ts0[i].repacker = ""
        /\ pc = "done" => Len(InfoEvents) = Len(dir.tensors.list)

\* the keys of the metadata that start with "llama."
LlamaKeys ==
    {k \in DOMAIN kv : Len(k) >= 6 /\ SubSeq(k, 1, 6) = <<108, 108, 97, 109, 97, 46>>}

\* C24: in the metadata the llama adapter builds, no llama.* key is present
\* with the value 0: a key whose parameter, with all its aliases, is zero or
\* absent in config.json is left out
C24_NoZeroLlamaKey ==
    (conv = "llama" /\ pc \in {"header", "kv", "info", "data", "done"}) =>
        \A k \in LlamaKeys : kv[k].e.n # 0

\* the heads the claim gives a repacked tensor: num_attention_heads for a
\* query projection, num_key_value_heads or else num_attention_heads for a
\* key projection
ClaimedHeads ==
    IF rp.name = LayerTensor(<<48>>, Str.self_attn_q_proj) THEN rp.p.num_attention_heads
    ELSE IF rp.p.num_key_value_heads # 0 THEN rp.p.num_key_value_heads
    ELSE rp.p.num_attention_heads

\* the case of the claim: a query or key projection of shape [r, c] whose
\* heads divide r/2, repacked
RepackedMatrix ==
    /\ pc = "repacked"
    /\ rp.name \in {LayerTensor(<<48>>, Str.self_attn_q_proj),
                    LayerTensor(<<48>>, Str.self_attn_k_proj)}
    /\ Len(rp.shape) = 2
    /\ ClaimedHeads > 0
    /\ rp.shape[1] % (2 * ClaimedHeads) = 0

\* C25 as stated: the output is the input viewed as [h, 2, r/h/2, c], with
\* axes 1 and 2 exchanged, reshaped to [r, c] and then transposed:
\* out[j*r + (a*2k + 2m + b)] = in[(a*2k + b*k + m)*c + j]
C25_Original ==
    RepackedMatrix =>
        LET r == rp.shape[1]
            c == rp.shape[2]
            h == ClaimedHeads
            k == r \div (2 * h)
        IN  /\ rp.result.kind = "ok"
            /\ Len(rp.result.out) = r * c
            /\ \A a \in 0..(h - 1) : \A b \in 0..1 : \A m \in 0..(k - 1) : \A j \in 0..(c - 1) :
                  rp.result.out[j * r + (a * 2 * k + 2 * m + b) + 1]
                    = rp.data[(a * 2 * k + b * k + m) * c + j + 1]

\* C25: the output is the input viewed as [h, 2, r/h/2, c], with axes 1 and
\* 2 exchanged, reshaped to [r, c], and not transposed:
\* out[(a*2k + 2m + b)*c + j] = in[(a*2k + b*k + m)*c + j]; for r = c = 4,
\* h = 2 and the input 0..15 the output is 0..15, so out[0] = 0 and out[8] = 8
C25_Repack ==
    RepackedMatrix =>
        LET r == rp.shape[1]
            c == rp.shape[2]
            h == ClaimedHeads
            k == r \div (2 * h)
        IN  /\ rp.result.kind = "ok"
            /\ Len(rp.result.out) = r * c
            /\ \A a \in 0..(h - 1) : \A b \in 0..1 : \A m \in 0..(k - 1) : \A j \in 0..(c - 1) :
                  rp.result.out[(a * 2 * k + 2 * m + b) * c + j + 1]
                    = rp.data[(a * 2 * k + b * k + m) * c + j + 1]
            /\ (r = 4 /\ c = 4 /\ h = 2 /\ rp.data[1] = 0) =>
                  rp.result.out[1] = 0 /\ rp.result.out[9] = 8

\* a key projection of shape [12, 2] with three heads was repacked: its rows
\* 1 and 2 changed places
C25_Witness ==
    /\ RepackedMatrix
    /\ rp.name = LayerTensor(<<48>>, Str.self_attn_k_proj)
    /\ rp.shape = <<12, 2>>
    /\ rp.p.num_key_value_heads = 0
    /\ rp.p.num_attention_heads = 3
    /\ rp.data[1] = 0
    /\ rp.result.out = <<0, 1, 4, 5, 2, 3, 6, 7, 8, 9, 12, 13, 10, 11, 14, 15,
                         16, 17, 20, 21, 18, 19, 22, 23>>

\* C26: for every metadata map of writable values and every tensor list
\* whose payloads were all written, decoding the file WriteGGUF wrote leaves
\* the stream at the end of the file: the reader skips the bytes the writer
\* emitted
C26_ReaderAtEnd ==
    (pc = "decoded" /\ AllWritable) =>
        /\ decoded.err = ""
        /\ decoded.pos = Len(file)

\* C27: Decode ends, for every stream of every version, by returning a model
\* or an error; it never aborts with a panic
C27_DecodeTotal == pc = "decoded" => decoded.err # "panic"

\* C28: when tokenizer.json gave the vocabulary, every resolved special
\* vocabulary entry's id is the position of its content in the tokens: the
\* token at index i of tokenizer.ggml.tokens is the token whose id is i
C28_SpecialIdsIndexTokens ==
    (parser = "tokenizer.json" /\ pc \in {"pad", "write", "header", "kv", "info", "data", "done"}) =>
        \A i \in 1..Len(svs) :
            /\ svs[i].ID + 1 <= Len(vocab.Tokens)
            /\ vocab.Tokens[svs[i].ID + 1] = svs[i].Content

====
